---- MODULE Spec2Model ----
(***************************************************************************)
(* Model of the document-extraction pipeline of src/csf_extractor.py       *)
(* (class InformationExtractor), of MetabaseConnection                     *)
(* (src/mb_connection.py), of SalesforceConnection and SalesforceFunctions *)
(* (src/sf_connection.py) and of Ichigo.map_width_to_master_code           *)
(* (src/ichigo_api.py).                                                    *)
(*                                                                         *)
(* A Python str is a sequence of one-character strings.  Characters        *)
(* outside ASCII are named by their code point: "U+00E9" is e-acute,       *)
(* "U+00C9" is E-acute, "U+00D1"/"U+00F1" are N/n-tilde, "U+0301" and      *)
(* "U+0303" are the combining acute accent and tilde, "U+FF3F" is the      *)
(* fullwidth low line whose compatibility decomposition is "_".            *)
(***************************************************************************)
EXTENDS Integers, Sequences, FiniteSets, TLC

VARIABLES
    pc,             \* position of the running call
    information,    \* self.information
    pdf,            \* argument of process_pdf
    img,            \* local img of process_pdf
    url,            \* local url of process_pdf
    html,           \* local html of process_pdf / argument of __extract_information
    playwright,     \* the driver started by sync_playwright()
    browser,        \* the browser launched in __get_html
    context,        \* the browser context opened in __get_html
    content,        \* local content of __get_html
    values,         \* local values of __extract_information
    tds,            \* local tds of __extract_information
    idx,            \* position of the for loop in tds
    previous_span,  \* local previous_span of __extract_information
    next_break,     \* local next_break of __extract_information
    err,            \* the exception that is propagating, if any
    result,         \* what the last finished call returned
    calls,          \* number of process_pdf calls started
    trace,          \* history: the stages the current call has entered
    info_before,    \* history: self.information when the current call started
    walked,         \* history: the indices of tds the loop has processed
    text,           \* argument of __clean_string
    out,            \* result of __clean_string
    first,          \* history: the first argument given to __clean_string
    applied,        \* number of times __clean_string was applied in a row
    first_row,      \* input: how many of the selected cells lie in the first selected row
    mb_pc,          \* position of the MetabaseConnection object and its running call
    mb_creds,       \* login_credentials and new_login given to MetabaseConnection
    SESSION_ID,     \* MetabaseConnection.SESSION_ID
    headers,        \* MetabaseConnection.headers
    mb_logins,      \* history: login requests posted to /api/session
    mb_ops,         \* number of calls made on the MetabaseConnection
    mb_source,      \* the ids of the rows the queried table holds, ascending
    min_value,      \* argument min_value of query_more_data
    max_value,      \* local max_value of query_more_data
    data_list,      \* local data_list of query_more_data
    cursors,        \* history: the cursor of every query query_more_data issued
    mb_out,         \* what the last MetabaseConnection call returned
    sf_pc,          \* position of the running Salesforce call
    sf_op,          \* the Salesforce method that was called
    df,             \* argument df: the rows df.itertuples() yields
    columns,        \* df.columns
    verbose,        \* argument verbose
    handle_exception, \* argument handle_exception of add_record
    sf_remote,      \* input: how Salesforce answers the call made for each row
    sf_i,           \* position of the for loop in df
    errors,         \* local errors of the batch functions
    sf_attempts,    \* history: the rows for which a remote call was made
    sf_err,         \* the exception the Salesforce call raised, if any
    sf_out,         \* what the Salesforce call returned
    ich_pc,         \* position of the map_width_to_master_code round trip
    width,          \* argument width of the forward call
    skip_conversion, \* argument skip_conversion of the forward call
    master_code,    \* what the forward call returned
    ich_back,       \* what the call with inverse=True returned
    ich_err,        \* the exception map_width_to_master_code raised, if any
    bd_pc,          \* position of the build_dimensions call
    family,         \* argument family of build_dimensions
    bd_args,        \* the other arguments of build_dimensions, by name
    dimensions,     \* local dimensions of build_dimensions
    bd_err,         \* the exception build_dimensions raised, if any
    ctor_pc,        \* Ichigo(...): idle, built or raised
    connect_to,     \* the connect_to argument
    endpoint,       \* self.__endpoint, the pieces of the formatted url
    ich_headers,     \* self.__headers
    posts,          \* the requests.post calls made, in order
    rt_pc,          \* get_record_type_id: idle, returned or raised
    record_types,   \* the RecordType records of the org
    rt_query,       \* the sobject and record_type_name asked for
    rt_id,          \* the value returned
    rt_err,         \* the exception that left the call
    sh_pc,          \* modify_record: idle, returned or raised
    worksheet,      \* the worksheet, its header row and its records
    sheet_before,      \* the worksheet when modify_record was called
    sh_id,          \* the id argument
    sh_values,      \* the values argument
    sh_err,         \* the exception that left the call
    mp_pc,          \* __execute_query_in_mb: idle, fallback, returned or raised
    warn_filter,    \* the action of the warnings filter for UserWarning
    id_col,         \* whether id_col was given
    mb_data,        \* the rows the method returned
    mp_warned,      \* whether query_data issued its warning
    mp_err,         \* the exception that left the call
    dictionary,     \* df.transpose().to_dict(), keyed by the index of df
    mr_calls        \* the remote calls made by the loop, in order

vars == <<pc, information, pdf, img, url, html, playwright, browser, context,
          content, values, tds, idx, previous_span, next_break, err, result,
          calls, trace, info_before, walked, text, out, first, applied,
          first_row, mb_pc, mb_creds, SESSION_ID, headers, mb_logins, mb_ops,
          mb_source, min_value, max_value, data_list, cursors, mb_out,
          sf_pc, sf_op, df, columns, verbose, handle_exception, sf_remote,
          sf_i, errors, sf_attempts, sf_err, sf_out,
          ich_pc, width, skip_conversion, master_code, ich_back, ich_err,
          bd_pc, family, bd_args, dimensions, bd_err,
          ctor_pc, connect_to, endpoint, ich_headers, posts,
          rt_pc, record_types, rt_query, rt_id, rt_err,
          sh_pc, worksheet, sheet_before, sh_id, sh_values, sh_err,
          mp_pc, warn_filter, id_col, mb_data, mp_warned, mp_err,
          dictionary, mr_calls>>

pipelineVars == <<information, pdf, img, url, playwright, browser, context,
                  content, result, calls, info_before>>
extractVars == <<html, values, tds, idx, previous_span, next_break, walked,
                 first_row>>
cleanVars == <<text, out, first, applied>>
mbVars == <<mb_pc, mb_creds, SESSION_ID, headers, mb_logins, mb_ops, mb_source,
            min_value, max_value, data_list, cursors, mb_out>>
sfVars == <<sf_pc, sf_op, df, columns, verbose, handle_exception, sf_remote,
            sf_i, errors, sf_attempts, sf_err, sf_out>>
ichVars == <<ich_pc, width, skip_conversion, master_code, ich_back, ich_err>>
dimVars == <<bd_pc, family, bd_args, dimensions, bd_err>>
ctorVars == <<ctor_pc, connect_to, endpoint, ich_headers, posts>>
rtVars == <<rt_pc, record_types, rt_query, rt_id, rt_err>>
shVars == <<sh_pc, worksheet, sheet_before, sh_id, sh_values, sh_err>>
mpVars == <<mp_pc, warn_filter, id_col, mb_data, mp_warned, mp_err>>
mrVars == <<dictionary, mr_calls>>
wrapperVars == <<mbVars, sfVars, ichVars, dimVars, ctorVars, rtVars, shVars, mpVars, mrVars>>

-----------------------------------------------------------------------------
(* Bounds *)

MaxLen == 3       \* longest arbitrary string given to __clean_string
MaxWords == 2     \* most words in a generated label
MaxCells == 5     \* most selected td cells in a generated page
MaxCalls == 2     \* process_pdf calls on one InformationExtractor

-----------------------------------------------------------------------------
(* Python values *)

None == [none |-> TRUE, text |-> <<>>]
Str(s) == [none |-> FALSE, text |-> s]

UpperSeq == <<"A","B","C","D","E","F","G","H","I","J","K","L","M",
              "N","O","P","Q","R","S","T","U","V","W","X","Y","Z">>
LowerSeq == <<"a","b","c","d","e","f","g","h","i","j","k","l","m",
              "n","o","p","q","r","s","t","u","v","w","x","y","z">>

\* str.isspace for the characters of the model
Whitespace == {" ", "\n", "\t"}

\* unicodedata.combining(c) != 0
Combining == {"U+0301", "U+0303"}

\* str.lower, one character
LowerChar(c) ==
    IF \E i \in 1..Len(UpperSeq) : UpperSeq[i] = c
    THEN LowerSeq[CHOOSE i \in 1..Len(UpperSeq) : UpperSeq[i] = c]
    ELSE CASE c = "U+00C9" -> "U+00E9"
           [] c = "U+00D1" -> "U+00F1"
           [] OTHER -> c

\* unicodedata.normalize('NFKD', c), one character
NFKDChar(c) ==
    CASE c = "U+00E9" -> <<"e", "U+0301">>
      [] c = "U+00C9" -> <<"E", "U+0301">>
      [] c = "U+00F1" -> <<"n", "U+0303">>
      [] c = "U+00D1" -> <<"N", "U+0303">>
      [] c = "U+FF3F" -> <<"_">>
      [] OTHER -> <<c>>

\* str.replace(old, new) for a one-character old
RECURSIVE Replace(_, _, _)
Replace(s, old, new) ==
    IF s = <<>> THEN <<>>
    ELSE (IF Head(s) = old THEN new ELSE <<Head(s)>>) \o Replace(Tail(s), old, new)

\* str.lower
RECURSIVE Lower(_)
Lower(s) ==
    IF s = <<>> THEN <<>> ELSE <<LowerChar(Head(s))>> \o Lower(Tail(s))

\* unicodedata.normalize('NFKD', s)
RECURSIVE NFKD(_)
NFKD(s) ==
    IF s = <<>> THEN <<>> ELSE NFKDChar(Head(s)) \o NFKD(Tail(s))

\* ''.join(c for c in s if not unicodedata.combining(c))
RECURSIVE DropCombining(_)
DropCombining(s) ==
    IF s = <<>> THEN <<>>
    ELSE (IF Head(s) \in Combining THEN <<>> ELSE <<Head(s)>>) \o DropCombining(Tail(s))

RECURSIVE LStrip(_)
LStrip(s) ==
    IF s # <<>> /\ Head(s) \in Whitespace THEN LStrip(Tail(s)) ELSE s

RECURSIVE RStrip(_)
RStrip(s) ==
    IF s # <<>> /\ s[Len(s)] \in Whitespace
    THEN RStrip(SubSeq(s, 1, Len(s) - 1)) ELSE s

\* str.strip()
Strip(s) == RStrip(LStrip(s))

RECURSIVE DropWhileIn(_, _)
DropWhileIn(s, set) ==
    IF s # <<>> /\ Head(s) \in set THEN DropWhileIn(Tail(s), set) ELSE s

\* re.sub(r'[set]+', new, s): every maximal run of characters of set becomes new
RECURSIVE SubRuns(_, _, _)
SubRuns(s, set, new) ==
    IF s = <<>> THEN <<>>
    ELSE IF Head(s) \in set
         THEN <<new>> \o SubRuns(DropWhileIn(s, set), set, new)
         ELSE <<Head(s)>> \o SubRuns(Tail(s), set, new)

\* InformationExtractor.__eliminar_acentos
EliminarAcentos(texto) ==
    LET texto_normalizado == NFKD(texto)
    IN  DropCombining(texto_normalizado)

\* __clean_string with line 59 turning every punctuation mark into a space
CleanStringPunctToSpace(t) ==
    LET t1 == Replace(t, "\n", <<" ">>)
        t2 == Replace(t1, "_", <<" ">>)
        t3 == Strip(t2)
        t4 == Lower(t3)
        t5 == EliminarAcentos(t4)
        t6 == Replace(Replace(Replace(Replace(t5, "(", <<" ">>), ")", <<" ">>),
                              "-", <<" ">>), ":", <<" ">>)
        t7 == SubRuns(t6, Whitespace, " ")
        t8 == SubRuns(t7, {"_"}, "_")
    IN  Replace(t8, " ", <<"_">>)

\* __clean_string with line 59 deleting the hyphen like the other marks
CleanStringHyphenDeleted(t) ==
    LET t1 == Replace(t, "\n", <<" ">>)
        t2 == Replace(t1, "_", <<" ">>)
        t3 == Strip(t2)
        t4 == Lower(t3)
        t5 == EliminarAcentos(t4)
        t6 == Replace(Replace(Replace(Replace(t5, "(", <<>>), ")", <<>>),
                              "-", <<>>), ":", <<>>)
        t7 == SubRuns(t6, Whitespace, " ")
        t8 == SubRuns(t7, {"_"}, "_")
    IN  Replace(t8, " ", <<"_">>)

\* InformationExtractor.__clean_string, line by line
CleanString(t) ==
    LET t1 == Replace(t, "\n", <<" ">>)
        t2 == Replace(t1, "_", <<" ">>)
        t3 == Strip(t2)
        t4 == Lower(t3)
        t5 == EliminarAcentos(t4)
        t6 == Replace(Replace(Replace(Replace(t5, "(", <<>>), ")", <<>>),
                              "-", <<" ">>), ":", <<>>)
        t7 == SubRuns(t6, Whitespace, " ")
        t8 == SubRuns(t7, {"_"}, "_")
    IN  Replace(t8, " ", <<"_">>)

-----------------------------------------------------------------------------
(* Inputs of __clean_string *)

\* characters of the arbitrary inputs
Sigma == {"a", "B", "U+00E9", " ", "\n", "_", "(", ")", "-", ":"}

\* letters of the generated labels
Letters == {"a", "B", "U+00C9", "U+00F1"}

SeqsUpTo(S, n) == UNION {[1..k -> S] : k \in 0..n}

LabelWords == SeqsUpTo(Letters, 2) \ {<<>>}

RECURSIVE JoinWords(_, _)
JoinWords(ws, sep) ==
    IF ws = <<>> THEN <<>>
    ELSE IF Len(ws) = 1 THEN ws[1]
    ELSE ws[1] \o sep \o JoinWords(Tail(ws), sep)

\* a label: words separated by single spaces, ending in a colon
LabelText(ws) == JoinWords(ws, <<" ">>) \o <<":">>

WordLists == SeqsUpTo(LabelWords, MaxWords) \ {<<>>}

RegimenFiscal == <<"R","U+00E9","g","i","m","e","n"," ","F","i","s","c","a","l",":">>

\* two one-letter words around parentheses: x(y)
ParenTexts == {<<x, "(", y, ")">> : x \in Letters, y \in Letters}

CleanInputs ==
    SeqsUpTo(Sigma, MaxLen) \cup {LabelText(ws) : ws \in WordLists}
    \cup SeqsUpTo(Letters \cup {":", "-", "_"}, 3)
    \cup ParenTexts \cup {RegimenFiscal}

-----------------------------------------------------------------------------
(* The state outside any call *)

NoPdf == [name |-> <<>>, render |-> "ok", codes |-> <<>>]
NoImage == [none |-> TRUE, codes |-> <<>>]
NoHtml == [li |-> None, tds |-> <<>>]
UnboundAsEmptyLabel == [bound |-> TRUE, text |-> <<>>]
Unbound == [bound |-> FALSE, text |-> <<>>]
Bound(s) == [bound |-> TRUE, text |-> s]
NoInformation == [set |-> FALSE, rec |-> <<>>]

\* what a call handed back: nothing yet, None, or a dict
NoResult == [given |-> FALSE, none |-> TRUE, rec |-> <<>>]
ReturnedNone == [given |-> TRUE, none |-> TRUE, rec |-> <<>>]
ReturnedDict(d) == [given |-> TRUE, none |-> FALSE, rec |-> d]

PipelineIdle ==
    /\ information = NoInformation
    /\ pdf = NoPdf
    /\ img = NoImage
    /\ url = None
    /\ playwright = "none"
    /\ browser = "none"
    /\ context = "none"
    /\ content = NoHtml
    /\ result = NoResult
    /\ calls = 0
    /\ info_before = NoInformation

ExtractIdle ==
    /\ values = <<>>
    /\ tds = <<>>
    /\ idx = 0
    /\ previous_span = Unbound
    /\ next_break = FALSE
    /\ walked = <<>>
    /\ first_row = 0

CleanIdle ==
    /\ text = <<>>
    /\ out = None
    /\ first = <<>>
    /\ applied = 0

\* a number, or the NaN that pandas gives as the max of an empty column
Num(n) == [nan |-> FALSE, v |-> n]
NaN == [nan |-> TRUE, v |-> 0]

NoCreds == [api_key |-> FALSE, new_login |-> FALSE, is_path |-> FALSE]
NoHeaders == [name |-> "none", value |-> "none"]
NoMbOut == [op |-> "none", status |-> "none", auth |-> NoHeaders, rows |-> <<>>]

MbIdle ==
    /\ mb_pc = "new"
    /\ mb_creds = NoCreds
    /\ SESSION_ID = "unset"
    /\ headers = NoHeaders
    /\ mb_logins = 0
    /\ mb_ops = 0
    /\ mb_source = <<>>
    /\ min_value = 0
    /\ max_value = Num(0)
    /\ data_list = <<>>
    /\ cursors = <<>>
    /\ mb_out = NoMbOut

NoResponse == [given |-> FALSE, errors |-> <<>>, id |-> None, success |-> FALSE]

SfIdle ==
    /\ sf_pc = "idle"
    /\ sf_op = "none"
    /\ df = <<>>
    /\ columns = <<>>
    /\ verbose = FALSE
    /\ handle_exception = FALSE
    /\ sf_remote = <<>>
    /\ sf_i = 1
    /\ errors = <<>>
    /\ sf_attempts = <<>>
    /\ sf_err = "none"
    /\ sf_out = NoResponse

\* a Python int, or a Python str
PyInt(n) == [int |-> TRUE, n |-> n, s |-> <<>>]
PyStr(s) == [int |-> FALSE, n |-> 0, s |-> s]
\* the float code / 10_000
PyFloat(code) == [label |-> FALSE, key |-> <<>>, code |-> code]
PyKey(key) == [label |-> TRUE, key |-> key, code |-> 0]

IchIdle ==
    /\ ich_pc = "idle"
    /\ width = PyInt(0)
    /\ skip_conversion = FALSE
    /\ master_code = 0
    /\ ich_back = PyFloat(0)
    /\ ich_err = "none"

\* the values an argument of build_dimensions takes: None, np.nan, a number
\* or a str
AbsentV == [kind |-> "none", n |-> 0, s |-> <<>>]
NaNV == [kind |-> "nan", n |-> 0, s |-> <<>>]
NumV(n) == [kind |-> "num", n |-> n, s |-> <<>>]
StrV(s) == [kind |-> "str", n |-> 0, s |-> s]

ArgNames ==
    <<"thickness", "width_unit", "width_value", "length_unit", "length_value",
      "wall_length", "wall_width", "A", "B", "C", "D", "kg_m", "depth",
      "diameter", "cedula">>

ArgNameSet == {ArgNames[i] : i \in 1..Len(ArgNames)}

DimIdle ==
    /\ bd_pc = "idle"
    /\ family = "none"
    /\ bd_args = [name \in ArgNameSet |-> AbsentV]
    /\ dimensions = <<>>
    /\ bd_err = "none"

CtorIdle ==
    /\ ctor_pc = "idle"
    /\ connect_to = ""
    /\ endpoint = <<>>
    /\ ich_headers = <<>>
    /\ posts = <<>>

NoRtQuery == [sobject |-> "", record_type_name |-> ""]

RtIdle ==
    /\ rt_pc = "idle"
    /\ record_types = <<>>
    /\ rt_query = NoRtQuery
    /\ rt_id = None
    /\ rt_err = "none"

ShIdle ==
    /\ sh_pc = "idle"
    /\ worksheet = <<>>
    /\ sheet_before = <<>>
    /\ sh_id = <<>>
    /\ sh_values = <<>>
    /\ sh_err = "none"

MpIdle ==
    /\ mp_pc = "idle"
    /\ warn_filter = "default"
    /\ id_col = FALSE
    /\ mb_data = <<>>
    /\ mp_warned = FALSE
    /\ mp_err = "none"

MrIdle ==
    /\ dictionary = <<>>
    /\ mr_calls = <<>>

WrapperIdle ==
    /\ MbIdle
    /\ SfIdle
    /\ IchIdle
    /\ DimIdle
    /\ CtorIdle
    /\ RtIdle
    /\ ShIdle
    /\ MpIdle
    /\ MrIdle

-----------------------------------------------------------------------------
(* __clean_string as an operation: applied to an input, then to its own result *)

MaxApply == 2

InitClean ==
    /\ pc = "clean"
    /\ err = "none"
    /\ trace = <<>>
    /\ html = NoHtml
    /\ PipelineIdle
    /\ ExtractIdle
    /\ WrapperIdle
    /\ text \in CleanInputs
    /\ first = text
    /\ out = None
    /\ applied = 0

CleanCall ==
    /\ pc = "clean"
    /\ out' = Str(CleanString(text))
    /\ applied' = applied + 1
    /\ pc' = "cleaned"
    /\ UNCHANGED <<text, first, err, trace>>
    /\ UNCHANGED pipelineVars
    /\ UNCHANGED extractVars
    /\ UNCHANGED wrapperVars

CleanAgain ==
    /\ pc = "cleaned"
    /\ applied < MaxApply
    /\ text' = out.text
    /\ pc' = "clean"
    /\ UNCHANGED <<out, first, applied, err, trace>>
    /\ UNCHANGED pipelineVars
    /\ UNCHANGED extractVars
    /\ UNCHANGED wrapperVars

NextClean == CleanCall \/ CleanAgain

SpecClean == InitClean /\ [][NextClean]_vars

-----------------------------------------------------------------------------
(* Python dict: insertion-ordered key/value pairs *)

DictHas(d, k) == \E i \in 1..Len(d) : d[i].k = k

DictGet(d, k) == d[CHOOSE i \in 1..Len(d) : d[i].k = k].v

\* d.setdefault(k, v)
DictSetKeepFirst(d, k, v) ==
    IF DictHas(d, k) THEN d ELSE Append(d, [k |-> k, v |-> v])

\* d[k] = v
DictSet(d, k, v) ==
    IF DictHas(d, k)
    THEN [i \in 1..Len(d) |-> IF d[i].k = k THEN [k |-> k, v |-> v] ELSE d[i]]
    ELSE Append(d, [k |-> k, v |-> v])

DictKeys(d) == {d[i].k : i \in 1..Len(d)}

-----------------------------------------------------------------------------
(* The page: the text of its first <li> (None when it has none) and the    *)
(* cells matched by "tr[class='ui-widget-content'] td" in document order.  *)
(* A cell is a label cell when td.find('span') finds a span; its text is   *)
(* then span.text, otherwise td.text.                                      *)

LabelCell(t) == [span |-> TRUE, text |-> t]
ValueCell(t) == [span |-> FALSE, text |-> t]

RfcKey == <<"r","f","c">>
AlKey == <<"a","l">>
SentinelText == <<"A","L",":">>

Labels == {SentinelText, <<"A","l">>, <<":">>, <<"R","F","C",":">>}
ValueTexts == {<<>>, <<" ","x"," ">>}
Cells == {LabelCell(t) : t \in Labels} \cup {ValueCell(t) : t \in ValueTexts}

\* "k: R1, z"  /  no colon  /  no <li> at all
LiGood == <<"k",":"," ","R","1",","," ","z">>
LiTexts == {Str(LiGood), Str(<<"k"," ","z">>), None}

Pages == {[li |-> l, tds |-> t] : l \in LiTexts, t \in SeqsUpTo(Cells, MaxCells)}

\* the tables of the specification's examples
Nombre == <<"N","o","m","b","r","e">>
Estado == <<"E","s","t","a","d","o">>
AcmeSa == <<"A","C","M","E"," ","S","A">>
Date2030 == <<"2","0","3","0","-","0","1","-","0","1">>
Cdmx == <<"C","D","M","X">>
Jalisco == <<"J","A","L","I","S","C","O">>

HeaderCell == ValueCell(<<"h">>)

SentinelCells ==
    << LabelCell(<<"R","F","C",":">>), ValueCell(<<>>),
       LabelCell(Nombre), ValueCell(AcmeSa),
       LabelCell(SentinelText), ValueCell(Date2030) >>

EstadoCells ==
    << LabelCell(Estado), ValueCell(Cdmx), LabelCell(Estado), ValueCell(Jalisco) >>

Followers ==
    { <<>>, <<ValueCell(Cdmx)>>, <<LabelCell(Estado), ValueCell(Cdmx)>>,
      <<LabelCell(SentinelText), ValueCell(Cdmx)>> }

ExamplePages ==
    {[li |-> Str(LiGood), tds |-> <<HeaderCell>> \o SentinelCells \o f] : f \in Followers}
    \cup {[li |-> Str(LiGood), tds |-> <<HeaderCell>> \o EstadoCells \o f] : f \in Followers}

-----------------------------------------------------------------------------
(* str.split(sep) pieces used by line 76 *)

RECURSIVE TakeUntil(_, _)
TakeUntil(s, c) ==
    IF s = <<>> \/ Head(s) = c THEN <<>> ELSE <<Head(s)>> \o TakeUntil(Tail(s), c)

RECURSIVE DropThrough(_, _)
DropThrough(s, c) ==
    IF s = <<>> THEN <<>>
    ELSE IF Head(s) = c THEN Tail(s) ELSE DropThrough(Tail(s), c)

Contains(s, c) == \E i \in 1..Len(s) : s[i] = c

\* s.split(c)[0]
SplitFirst(s, c) == TakeUntil(s, c)

\* s.split(c)[1], defined when s contains c
SplitSecondOffByOne(s, c) == TakeUntil(s, c)
SplitSecond(s, c) == TakeUntil(DropThrough(s, c), c)

-----------------------------------------------------------------------------
(* InformationExtractor.__extract_information *)

\* line 79: soup.select(...)[1:]
ButFirst(selected) == IF selected = <<>> THEN <<>> ELSE Tail(selected)

\* lines 72-81: parse, the rfc of the first <li>, the selected cells but the first
ExtractStart ==
    /\ pc = "extract"
    /\ IF html.li = None
       THEN /\ pc' = "raised"
            /\ err' = "AttributeError"
            /\ UNCHANGED <<values, tds, idx, previous_span, next_break>>
       ELSE IF ~Contains(html.li.text, ":")
       THEN /\ pc' = "raised"
            /\ err' = "IndexError"
            /\ UNCHANGED <<values, tds, idx, previous_span, next_break>>
       ELSE /\ values' = DictSet(<<>>, RfcKey,
                           Str(Strip(SplitFirst(SplitSecond(html.li.text, ":"), ","))))
            /\ tds' = ButFirst(html.tds)
            /\ idx' = 1
            /\ previous_span' = Unbound
            /\ next_break' = FALSE
            /\ pc' = "walk"
            /\ err' = "none"
    /\ walked' = <<>>
    /\ trace' = Append(trace, "extract")
    /\ UNCHANGED <<html, first_row>>
    /\ UNCHANGED pipelineVars
    /\ UNCHANGED cleanVars
    /\ UNCHANGED wrapperVars

\* line 85: if span.text == 'AL:': next_break = True
SentinelSeenNever(nb, span_text) == nb
SentinelSeen(nb, span_text) == nb \/ span_text = SentinelText

\* line 89: previous_span == ''
LabelIsEmptyNever(label) == FALSE
LabelIsEmpty(label) == label = <<>>

\* line 88
CellValueRaw(td) == Str(Strip(td.text))
CellValue(td) == IF Strip(td.text) # <<>> THEN Str(Strip(td.text)) ELSE None

\* lines 82-91: one iteration of the for loop
WalkCell ==
    /\ pc = "walk"
    /\ idx <= Len(tds)
    /\ LET td == tds[idx] IN
       IF td.span
       THEN /\ next_break' = SentinelSeen(next_break, td.text)
            /\ previous_span' = Bound(CleanString(td.text))
            /\ idx' = idx + 1
            /\ UNCHANGED <<values, pc, err>>
       ELSE IF ~previous_span.bound
       THEN /\ pc' = "raised"
            /\ err' = "UnboundLocalError"
            /\ UNCHANGED <<values, idx, previous_span, next_break>>
       ELSE IF LabelIsEmpty(previous_span.text)
       THEN /\ idx' = idx + 1
            /\ UNCHANGED <<values, pc, err, previous_span, next_break>>
       ELSE /\ values' = DictSet(values, previous_span.text, CellValue(td))
            /\ IF next_break
               THEN pc' = "extracted" /\ idx' = idx
               ELSE pc' = pc /\ idx' = idx + 1
            /\ UNCHANGED <<err, previous_span, next_break>>
    /\ walked' = Append(walked, idx)
    /\ UNCHANGED <<html, tds, trace, first_row>>
    /\ UNCHANGED pipelineVars
    /\ UNCHANGED cleanVars
    /\ UNCHANGED wrapperVars

\* line 93, reached when the loop runs out of cells
WalkEnd ==
    /\ pc = "walk"
    /\ idx > Len(tds)
    /\ pc' = "extracted"
    /\ UNCHANGED <<err, trace>>
    /\ UNCHANGED extractVars
    /\ UNCHANGED pipelineVars
    /\ UNCHANGED cleanVars
    /\ UNCHANGED wrapperVars

\* pages whose selected cells are split into a first row and the other rows
MaxRowCells == 4
RowCells == {LabelCell(<<"A","l">>), LabelCell(SentinelText), ValueCell(<<" ","x"," ">>)}
RowPages == {[li |-> Str(LiGood), tds |-> t] : t \in SeqsUpTo(RowCells, MaxRowCells)}

InitRows ==
    /\ pc = "extract"
    /\ err = "none"
    /\ trace = <<>>
    /\ html \in RowPages
    /\ PipelineIdle
    /\ values = <<>>
    /\ tds = <<>>
    /\ idx = 0
    /\ previous_span = Unbound
    /\ next_break = FALSE
    /\ walked = <<>>
    /\ first_row \in 0..Len(html.tds)
    /\ CleanIdle
    /\ WrapperIdle

InitExtract ==
    /\ pc = "extract"
    /\ err = "none"
    /\ trace = <<>>
    /\ html \in Pages \cup ExamplePages
    /\ PipelineIdle
    /\ ExtractIdle
    /\ CleanIdle
    /\ WrapperIdle

NextExtract == ExtractStart \/ WalkCell \/ WalkEnd

SpecExtract == InitExtract /\ [][NextExtract]_vars

SpecRows == InitRows /\ [][NextExtract]_vars

-----------------------------------------------------------------------------
(* The uploaded documents and the pages the decoded URL can serve *)

PdfName == <<"a",".","p","d","f">>
TxtName == <<"a",".","t","x","t">>
XpdfName == <<"a",".","x","p","d","f">>
Names == {PdfName, TxtName, XpdfName}

Url1 == <<"u","1">>
Url2 == <<"u","2">>

\* a detected code: its payload, and whether the payload is ASCII
Code(u, a) == [data |-> u, ascii |-> a]

CodeLists ==
    { <<>>, <<Code(Url1, TRUE)>>, <<Code(Url2, TRUE), Code(Url1, TRUE)>>,
      <<Code(Url1, FALSE)>> }

Pdfs == {[name |-> n, render |-> r, codes |-> c] :
            n \in Names, r \in {"ok", "malformed"}, c \in CodeLists}

ServedPages ==
    ExamplePages
    \cup { [li |-> None, tds |-> <<HeaderCell>> \o EstadoCells],
           [li |-> Str(LiGood), tds |-> <<HeaderCell, ValueCell(Cdmx)>>],
           [li |-> Str(LiGood), tds |-> <<>>] }

\* str.endswith
EndsWith(s, suffix) ==
    /\ Len(s) >= Len(suffix)
    /\ SubSeq(s, Len(s) - Len(suffix) + 1, Len(s)) = suffix

-----------------------------------------------------------------------------
(* InformationExtractor.process_pdf and the stages it calls *)

\* a caller invokes process_pdf(pdf)
Call ==
    /\ pc \in {"idle", "returned", "raised"}
    /\ calls < MaxCalls
    /\ pdf' \in Pdfs
    /\ calls' = calls + 1
    /\ pc' = "convert"
    /\ err' = "none"
    /\ result' = NoResult
    /\ trace' = <<>>
    /\ info_before' = information
    /\ img' = NoImage
    /\ url' = None
    /\ html' = NoHtml
    /\ content' = NoHtml
    /\ playwright' = "none"
    /\ browser' = "none"
    /\ context' = "none"
    /\ values' = <<>>
    /\ tds' = <<>>
    /\ idx' = 0
    /\ previous_span' = Unbound
    /\ next_break' = FALSE
    /\ walked' = <<>>
    /\ first_row' = 0
    /\ UNCHANGED information
    /\ UNCHANGED cleanVars
    /\ UNCHANGED wrapperVars

\* __convert_pdf_to_image: raise('...') of a str is itself a TypeError
ConvertPdfToImage ==
    /\ pc = "convert"
    /\ trace' = Append(trace, "convert")
    /\ IF ~EndsWith(pdf.name, <<"p","d","f">>)
       THEN pc' = "raised" /\ err' = "TypeError" /\ UNCHANGED img
       ELSE IF pdf.render = "malformed"
       THEN pc' = "raised" /\ err' = "PDFError" /\ UNCHANGED img
       ELSE pc' = "decode" /\ img' = [none |-> FALSE, codes |-> pdf.codes]
                           /\ UNCHANGED err
    /\ UNCHANGED <<information, pdf, url, playwright, browser, context,
                   content, result, calls, info_before>>
    /\ UNCHANGED extractVars
    /\ UNCHANGED cleanVars
    /\ UNCHANGED wrapperVars

\* decode(image)[-1]
LastCode(codes) == codes[Len(codes)]

\* line 119: decode(image)[0]
FirstCode(codes) == codes[1]

\* __get_url_from_csf swallowing its errors and handing on no URL
GetUrlFromCsfSwallow ==
    /\ pc = "decode"
    /\ trace' = Append(trace, "decode")
    /\ IF img.codes = <<>> \/ ~img.codes[1].ascii
       THEN pc' = "fetch" /\ UNCHANGED url
       ELSE pc' = "fetch" /\ url' = Str(img.codes[1].data)
    /\ UNCHANGED <<information, pdf, img, playwright, browser, context,
                   content, result, calls, info_before, err>>
    /\ UNCHANGED extractVars
    /\ UNCHANGED cleanVars
    /\ UNCHANGED wrapperVars

\* __get_url_from_csf: decode(image)[0].data.decode('ascii')
GetUrlFromCsf ==
    /\ pc = "decode"
    /\ trace' = Append(trace, "decode")
    /\ IF img.codes = <<>>
       THEN pc' = "raised" /\ err' = "IndexError" /\ UNCHANGED url
       ELSE IF ~FirstCode(img.codes).ascii
       THEN pc' = "raised" /\ err' = "UnicodeDecodeError" /\ UNCHANGED url
       ELSE pc' = "fetch" /\ url' = Str(FirstCode(img.codes).data) /\ UNCHANGED err
    /\ UNCHANGED <<information, pdf, img, playwright, browser, context,
                   content, result, calls, info_before>>
    /\ UNCHANGED extractVars
    /\ UNCHANGED cleanVars
    /\ UNCHANGED wrapperVars

fetchFrame == <<information, pdf, img, url, result, calls, info_before>>

\* __get_html, line 133: with sync_playwright() as p  (__enter__ starts the driver)
PlaywrightEnter ==
    /\ pc = "fetch"
    /\ trace' = Append(trace, "fetch")
    /\ \/ playwright' = "running" /\ pc' = "launch" /\ UNCHANGED err
       \/ playwright' = "none" /\ pc' = "raised" /\ err' = "DriverError"
    /\ UNCHANGED <<browser, context, content>>
    /\ UNCHANGED fetchFrame
    /\ UNCHANGED extractVars
    /\ UNCHANGED cleanVars
    /\ UNCHANGED wrapperVars

\* line 134: browser = p.chromium.launch(headless=True)
Launch ==
    /\ pc = "launch"
    /\ \/ browser' = "open" /\ pc' = "new_context" /\ UNCHANGED err
       \/ browser' = browser /\ pc' = "with_exit" /\ err' = "LaunchError"
    /\ UNCHANGED <<playwright, context, content, trace>>
    /\ UNCHANGED fetchFrame
    /\ UNCHANGED extractVars
    /\ UNCHANGED cleanVars
    /\ UNCHANGED wrapperVars

\* lines 135-136: context = browser.new_context(); page = context.new_page()
NewContext ==
    /\ pc = "new_context"
    /\ context' = "open"
    /\ pc' = "goto"
    /\ UNCHANGED <<playwright, browser, content, err, trace>>
    /\ UNCHANGED fetchFrame
    /\ UNCHANGED extractVars
    /\ UNCHANGED cleanVars
    /\ UNCHANGED wrapperVars

\* line 138: page.goto(url, wait_until='domcontentloaded')
Goto ==
    /\ pc = "goto"
    /\ \/ pc' = "content" /\ UNCHANGED err
       \/ pc' = "with_exit" /\ err' = "NavigationError"
    /\ UNCHANGED <<playwright, browser, context, content, trace>>
    /\ UNCHANGED fetchFrame
    /\ UNCHANGED extractVars
    /\ UNCHANGED cleanVars
    /\ UNCHANGED wrapperVars

\* line 139: content = page.content()
Content ==
    /\ pc = "content"
    /\ content' \in ServedPages
    /\ pc' = "with_exit"
    /\ UNCHANGED <<playwright, browser, context, err, trace>>
    /\ UNCHANGED fetchFrame
    /\ UNCHANGED extractVars
    /\ UNCHANGED cleanVars
    /\ UNCHANGED wrapperVars

\* the block without a context manager: teardown only on the normal path
WithExitLeak ==
    /\ pc = "with_exit"
    /\ IF err # "none"
       THEN /\ pc' = "raised"
            /\ UNCHANGED <<html, playwright, browser, context>>
       ELSE /\ pc' = "extract"
            /\ html' = content
            /\ playwright' = "stopped"
            /\ browser' = IF browser = "open" THEN "closed" ELSE browser
            /\ context' = IF context = "open" THEN "closed" ELSE context
    /\ UNCHANGED <<content, err, trace>>
    /\ UNCHANGED fetchFrame
    /\ UNCHANGED <<values, tds, idx, previous_span, next_break, walked, first_row>>
    /\ UNCHANGED cleanVars
    /\ UNCHANGED wrapperVars

\* leaving the with block: __exit__ stops the driver, which closes every browser
\* and context it launched; then line 141 returns, or the exception propagates
WithExit ==
    /\ pc = "with_exit"
    /\ playwright' = "stopped"
    /\ browser' = IF browser = "open" THEN "closed" ELSE browser
    /\ context' = IF context = "open" THEN "closed" ELSE context
    /\ IF err # "none"
       THEN pc' = "raised" /\ UNCHANGED html
       ELSE pc' = "extract" /\ html' = content
    /\ UNCHANGED <<content, err, trace>>
    /\ UNCHANGED fetchFrame
    /\ UNCHANGED <<values, tds, idx, previous_span, next_break, walked, first_row>>
    /\ UNCHANGED cleanVars
    /\ UNCHANGED wrapperVars

\* line 43: self.information = information; the method has no return statement
Store ==
    /\ pc = "extracted"
    /\ information' = [set |-> TRUE, rec |-> values]
    /\ result' = ReturnedNone
    /\ pc' = "returned"
    /\ UNCHANGED <<pdf, img, url, playwright, browser, context, content,
                   calls, info_before, err, trace>>
    /\ UNCHANGED extractVars
    /\ UNCHANGED cleanVars
    /\ UNCHANGED wrapperVars

Init ==
    /\ pc = "idle"
    /\ err = "none"
    /\ trace = <<>>
    /\ html = NoHtml
    /\ PipelineIdle
    /\ ExtractIdle
    /\ CleanIdle
    /\ WrapperIdle

Next ==
    \/ Call
    \/ ConvertPdfToImage
    \/ GetUrlFromCsf
    \/ PlaywrightEnter
    \/ Launch
    \/ NewContext
    \/ Goto
    \/ Content
    \/ WithExit
    \/ ExtractStart
    \/ WalkCell
    \/ WalkEnd
    \/ Store

Spec == Init /\ [][Next]_vars

-----------------------------------------------------------------------------
(* MetabaseConnection (src/mb_connection.py) *)

PageSize == 2000      \* line 182: the loop stops on a page shorter than this
RowLimit == 2000      \* lines 115-118: Metabase answers with at most this many rows
MaxFullPages == 2     \* most full pages a generated table fills
MaxMbOps == 2         \* calls made on one MetabaseConnection

\* a table of n rows with unique ids first, first + stride, ...
SourceOf(n, firstId, stride) == [k \in 1..n |-> firstId + stride * (k - 1)]

RowCounts ==
    {0, 1, 750}
    \cup {f * RowLimit + extra : f \in 1..MaxFullPages, extra \in {-1, 0, 1, 750}}

Sources == {SourceOf(n, sh[1], sh[2]) : n \in RowCounts, sh \in {<<1, 1>>, <<5, 3>>}}
SmallSources == {SourceOf(1, 1, 1), SourceOf(RowLimit + 1, 5, 3)}
MinValues == {0, 1000, -10000}

Creds == [api_key : BOOLEAN, new_login : BOOLEAN, is_path : BOOLEAN]

\* the rows "where id > cursor order by id" selects, cut at Metabase's row limit
QueryPage(source, cursor) ==
    LET above == SelectSeq(source, LAMBDA id : id > cursor)
    IN  SubSeq(above, 1, IF Len(above) < RowLimit THEN Len(above) ELSE RowLimit)

\* the largest element of s[lo..hi]; each half's result is bound once
RECURSIVE MaxRange(_, _, _)
MaxRange(s, lo, hi) ==
    IF lo = hi THEN s[lo]
    ELSE CHOOSE m \in {IF a >= b THEN a ELSE b :
                           a \in {MaxRange(s, lo, (lo + hi) \div 2)},
                           b \in {MaxRange(s, (lo + hi) \div 2 + 1, hi)}} : TRUE

RECURSIVE MinRange(_, _, _)
MinRange(s, lo, hi) ==
    IF lo = hi THEN s[lo]
    ELSE CHOOSE m \in {IF a <= b THEN a ELSE b :
                           a \in {MinRange(s, lo, (lo + hi) \div 2)},
                           b \in {MinRange(s, (lo + hi) \div 2 + 1, hi)}} : TRUE

\* data[id_col_df].min()
ColumnMin(page) == IF page = <<>> THEN NaN ELSE Num(MinRange(page, 1, Len(page)))

\* line 179: data[id_col_df].max()
ColumnMax(page) == IF page = <<>> THEN NaN ELSE Num(MaxRange(page, 1, Len(page)))

\* data.shape[0] <= 2_000
ShortPageInclusive(n) == n <= PageSize

\* line 182: data.shape[0] < 2_000
ShortPage(n) == n < PageSize

\* line 188: pd.concat(data_list, ignore_index=True)
RECURSIVE Concat(_)
Concat(pages) == IF pages = <<>> THEN <<>> ELSE Head(pages) \o Concat(Tail(pages))

pagingVars == <<min_value, max_value, data_list, cursors>>
authVars == <<SESSION_ID, headers, mb_logins, mb_creds>>

mbFrame ==
    /\ UNCHANGED <<pc, err, trace>>
    /\ UNCHANGED pipelineVars
    /\ UNCHANGED extractVars
    /\ UNCHANGED cleanVars
    /\ UNCHANGED sfVars
    /\ UNCHANGED ichVars
    /\ UNCHANGED dimVars
    /\ UNCHANGED ctorVars
    /\ UNCHANGED rtVars
    /\ UNCHANGED shVars
    /\ UNCHANGED mpVars
    /\ UNCHANGED mrVars

\* MetabaseConnection.__init__ and __get_session_token
MbConstruct ==
    /\ mb_pc = "new"
    /\ \E c \in Creds :
          /\ mb_creds' = c
          /\ IF c.api_key
             THEN /\ SESSION_ID' = "api_key"
                  /\ headers' = [name |-> "x-api-key", value |-> "api_key"]
                  /\ mb_pc' = "ready"
                  /\ UNCHANGED mb_logins
             ELSE IF ~c.new_login
             THEN /\ SESSION_ID' = "current-token"
                  /\ headers' = [name |-> "X-Metabase-Session", value |-> "current-token"]
                  /\ mb_pc' = "ready"
                  /\ UNCHANGED mb_logins
             ELSE /\ mb_logins' = mb_logins + 1
                  /\ \/ /\ SESSION_ID' = "session-id"
                        /\ headers' = [name |-> "X-Metabase-Session", value |-> "session-id"]
                        /\ mb_pc' = "ready"
                     \/ /\ mb_pc' = "failed"
                        /\ UNCHANGED <<SESSION_ID, headers>>
    /\ UNCHANGED <<mb_ops, mb_source, mb_out>>
    /\ UNCHANGED pagingVars
    /\ mbFrame

\* a request that logs in again when it fails
MbRequestRelogin(op, rows) ==
    /\ mb_ops < MaxMbOps
    /\ mb_ops' = mb_ops + 1
    /\ \/ /\ mb_out' = [op |-> op, status |-> "ok", auth |-> headers, rows |-> rows]
          /\ UNCHANGED authVars
       \/ /\ mb_out' = [op |-> op, status |-> "raised", auth |-> headers, rows |-> <<>>]
          /\ mb_logins' = mb_logins + 1
          /\ SESSION_ID' = "session-id-2"
          /\ headers' = [name |-> "X-Metabase-Session", value |-> "session-id-2"]
          /\ UNCHANGED mb_creds
    /\ UNCHANGED <<mb_pc, mb_source>>
    /\ UNCHANGED pagingVars
    /\ mbFrame

\* one request made with self.headers; it answers or the call raises
MbRequest(op, rows) ==
    /\ mb_ops < MaxMbOps
    /\ mb_ops' = mb_ops + 1
    /\ \/ mb_out' = [op |-> op, status |-> "ok", auth |-> headers, rows |-> rows]
       \/ mb_out' = [op |-> op, status |-> "raised", auth |-> headers, rows |-> <<>>]
    /\ UNCHANGED <<mb_pc, mb_source>>
    /\ UNCHANGED authVars
    /\ UNCHANGED pagingVars
    /\ mbFrame

\* lines 62-81
MbGetDatabaseId ==
    /\ mb_pc = "ready"
    /\ MbRequest("get_database_id", <<>>)

\* lines 93-151: the query without a cursor, cut at the row limit
MbQueryData ==
    /\ mb_pc = "ready"
    /\ MbRequest("query_data",
                 [i \in 1..(IF Len(mb_source) < RowLimit THEN Len(mb_source) ELSE RowLimit)
                     |-> mb_source[i]])

\* lines 202-215
MbGetTablesInDatabase ==
    /\ mb_pc = "ready"
    /\ MbRequest("get_tables_in_database", <<>>)

\* lines 217-248
MbGetColumnsInTable ==
    /\ mb_pc = "ready"
    /\ MbRequest("get_columns_in_table", <<>>)

\* lines 252-267
MbGetTableId ==
    /\ mb_pc = "ready"
    /\ MbRequest("get_table_id", <<>>)

\* query_more_data, lines 165-169
MbQueryMoreStart ==
    /\ mb_pc = "ready"
    /\ mb_ops < MaxMbOps
    /\ mb_ops' = mb_ops + 1
    /\ min_value' \in MinValues
    /\ max_value' = Num(min_value')
    /\ data_list' = <<>>
    /\ cursors' = <<>>
    /\ mb_pc' = "paging"
    /\ UNCHANGED <<mb_source, mb_out>>
    /\ UNCHANGED authVars
    /\ mbFrame

\* query_more_data, lines 170-186: one iteration of the while loop
MbQueryMorePage ==
    /\ mb_pc = "paging"
    /\ \E data \in {QueryPage(mb_source, max_value.v)} :
          /\ cursors' = Append(cursors, max_value.v)
          /\ max_value' = ColumnMax(data)
          /\ data_list' = Append(data_list, data)
          /\ mb_pc' = IF ShortPage(Len(data)) THEN "concat" ELSE "paging"
    /\ UNCHANGED <<min_value, mb_ops, mb_source, mb_out>>
    /\ UNCHANGED authVars
    /\ mbFrame

\* query_more_data, line 188
MbQueryMoreReturn ==
    /\ mb_pc = "concat"
    /\ mb_out' = [op |-> "query_more_data", status |-> "ok", auth |-> headers,
                  rows |-> Concat(data_list)]
    /\ mb_pc' = "ready"
    /\ UNCHANGED <<mb_ops, mb_source>>
    /\ UNCHANGED authVars
    /\ UNCHANGED pagingVars
    /\ mbFrame

InitMb ==
    /\ pc = "idle"
    /\ err = "none"
    /\ trace = <<>>
    /\ html = NoHtml
    /\ PipelineIdle
    /\ ExtractIdle
    /\ CleanIdle
    /\ mb_pc = "new"
    /\ mb_creds = NoCreds
    /\ SESSION_ID = "unset"
    /\ headers = NoHeaders
    /\ mb_logins = 0
    /\ mb_ops = 0
    /\ mb_source \in SmallSources
    /\ min_value = 0
    /\ max_value = Num(0)
    /\ data_list = <<>>
    /\ cursors = <<>>
    /\ mb_out = NoMbOut
    /\ SfIdle
    /\ IchIdle
    /\ DimIdle
    /\ CtorIdle
    /\ RtIdle
    /\ ShIdle
    /\ MpIdle
    /\ MrIdle

NextMb ==
    \/ MbConstruct
    \/ MbGetDatabaseId
    \/ MbQueryData
    \/ MbGetTablesInDatabase
    \/ MbGetColumnsInTable
    \/ MbGetTableId
    \/ MbQueryMoreStart
    \/ MbQueryMorePage
    \/ MbQueryMoreReturn

SpecMb == InitMb /\ [][NextMb]_vars

\* a connection built from an API key, about to page through one table
InitPaging ==
    /\ pc = "idle"
    /\ err = "none"
    /\ trace = <<>>
    /\ html = NoHtml
    /\ PipelineIdle
    /\ ExtractIdle
    /\ CleanIdle
    /\ mb_pc = "ready"
    /\ mb_creds = [api_key |-> TRUE, new_login |-> FALSE, is_path |-> FALSE]
    /\ SESSION_ID = "api_key"
    /\ headers = [name |-> "x-api-key", value |-> "api_key"]
    /\ mb_logins = 0
    /\ mb_ops = MaxMbOps - 1
    /\ mb_source \in Sources
    /\ min_value = 0
    /\ max_value = Num(0)
    /\ data_list = <<>>
    /\ cursors = <<>>
    /\ mb_out = NoMbOut
    /\ SfIdle
    /\ IchIdle
    /\ DimIdle
    /\ CtorIdle
    /\ RtIdle
    /\ ShIdle
    /\ MpIdle
    /\ MrIdle

NextPaging == MbQueryMoreStart \/ MbQueryMorePage \/ MbQueryMoreReturn

SpecPaging == InitPaging /\ [][NextPaging]_vars

PagingFair == WF_vars(MbQueryMorePage) /\ WF_vars(MbQueryMoreReturn)

SpecPagingFair == SpecPaging /\ PagingFair

-----------------------------------------------------------------------------
(* SalesforceConnection and SalesforceFunctions (src/sf_connection.py) *)

MaxSfRows == 2        \* most rows of a table given to a batch function

SfIds == {"001", "002"}

\* how Salesforce answers one create or update call
Outcomes == {"ok", "malformed", "not_found"}

\* the exception simple_salesforce raises for a rejected call
ExceptionOf(outcome) ==
    IF outcome = "malformed" THEN "SalesforceMalformedRequest"
    ELSE "SalesforceResourceNotFound"

\* the tuples df.itertuples() yields: the index, then one value per column
RowsOf(cols) == {IF cols = <<>> THEN <<id>> ELSE <<id, "v">> : id \in SfIds}

TablesOf(cols) == UNION {[1..n -> RowsOf(cols)] : n \in 0..MaxSfRows}

Returned(response) == [raised |-> "none", response |-> response]
Raised(exception) == [raised |-> exception, response |-> NoResponse]

Created ==
    [given |-> TRUE, errors |-> <<>>, id |-> Str(<<"i", "d">>), success |-> TRUE]

Rejected ==
    [given |-> TRUE, errors |-> <<"message">>, id |-> None, success |-> FALSE]

\* SalesforceConnection.add_record, lines 61-75
AddRecord(handle, outcome) ==
    IF outcome = "ok" THEN Returned(Created)
    ELSE IF handle /\ outcome = "malformed" THEN Returned(Rejected)
    ELSE Raised(ExceptionOf(outcome))

\* SalesforceConnection.update_record, lines 88-94
UpdateRecord(outcome) ==
    IF outcome = "ok" THEN Returned(Created) ELSE Raised(ExceptionOf(outcome))

sfFrame ==
    /\ UNCHANGED <<pc, err, trace>>
    /\ UNCHANGED pipelineVars
    /\ UNCHANGED extractVars
    /\ UNCHANGED cleanVars
    /\ UNCHANGED mbVars
    /\ UNCHANGED ichVars
    /\ UNCHANGED dimVars
    /\ UNCHANGED ctorVars
    /\ UNCHANGED rtVars
    /\ UNCHANGED shVars
    /\ UNCHANGED mpVars
    /\ UNCHANGED mrVars

SfFree == sf_pc \in {"idle", "returned", "raised"}

\* a batch function is called, lines 139-141 and 200-205
BatchStart(op, cols) ==
    /\ SfFree
    /\ sf_op' = op
    /\ columns' = cols
    /\ df' \in TablesOf(cols)
    /\ sf_remote' \in [1..Len(df') -> Outcomes]
    /\ verbose' \in BOOLEAN
    /\ handle_exception' = FALSE
    /\ sf_i' = 1
    /\ errors' = <<>>
    /\ sf_attempts' = <<>>
    /\ sf_err' = "none"
    /\ sf_out' = NoResponse
    /\ sf_pc' = "batch"
    /\ sfFrame

\* one iteration of the for loop of a batch function: the remote call, and the
\* except clause when it raises
BatchRow(call, handlerFails) ==
    /\ sf_pc = "batch"
    /\ sf_i <= Len(df)
    /\ sf_attempts' = Append(sf_attempts, sf_i)
    /\ IF call.raised = "none"
       THEN /\ sf_i' = sf_i + 1
            /\ UNCHANGED <<errors, sf_err, sf_pc>>
       ELSE IF handlerFails
       THEN /\ sf_pc' = "raised"
            /\ sf_err' = "UnboundLocalError"
            /\ UNCHANGED <<errors, sf_i>>
       ELSE /\ errors' = Append(errors, df[sf_i])
            /\ sf_i' = sf_i + 1
            /\ UNCHANGED <<sf_err, sf_pc>>
    /\ UNCHANGED <<sf_op, df, columns, verbose, handle_exception, sf_remote, sf_out>>
    /\ sfFrame

\* return errors, lines 155 and 225
BatchReturn(op) ==
    /\ sf_pc = "batch"
    /\ sf_op = op
    /\ sf_i > Len(df)
    /\ sf_out' = [given |-> TRUE, errors |-> errors, id |-> None, success |-> TRUE]
    /\ sf_pc' = "returned"
    /\ UNCHANGED <<sf_op, df, columns, verbose, handle_exception, sf_remote,
                   sf_i, errors, sf_attempts, sf_err>>
    /\ sfFrame

\* change_values, lines 131-141: df has the index and a single value
ChangeValuesStart ==
    /\ SfFree
    /\ BatchStart("change_values", <<"value">>)

\* change_values, lines 142-154
ChangeValuesRow ==
    /\ sf_op = "change_values"
    /\ sf_pc = "batch"
    /\ BatchRow(UpdateRecord(sf_remote[sf_i]), FALSE)

\* change_values, line 155
ChangeValuesReturn ==
    /\ sf_op = "change_values"
    /\ BatchReturn("change_values")

\* add_related_records, lines 184-205
AddRelatedRecordsStart ==
    /\ SfFree
    /\ \E cols \in {<<>>, <<"Name">>} : BatchStart("add_related_records", cols)

\* add_related_records, lines 206-224: line 221 prints the loop variable index
\* of line 212, which is unbound when df has no columns
AddRelatedRecordsRow ==
    /\ sf_op = "add_related_records"
    /\ sf_pc = "batch"
    /\ BatchRow(AddRecord(FALSE, sf_remote[sf_i]),
                verbose /\ sf_remote[sf_i] = "not_found" /\ columns = <<>>)

\* add_related_records, line 225
AddRelatedRecordsReturn ==
    /\ sf_op = "add_related_records"
    /\ BatchReturn("add_related_records")

\* SalesforceConnection.add_record called on its own, lines 49-75
AddRecordCall ==
    /\ SfFree
    /\ sf_op' = "add_record"
    /\ handle_exception' \in BOOLEAN
    /\ sf_remote' \in [1..1 -> Outcomes]
    /\ df' = <<>>
    /\ columns' = <<>>
    /\ verbose' = FALSE
    /\ sf_i' = 1
    /\ errors' = <<>>
    /\ sf_attempts' = <<1>>
    /\ \E call \in {AddRecord(handle_exception', sf_remote'[1])} :
          /\ sf_out' = call.response
          /\ sf_err' = call.raised
          /\ sf_pc' = IF call.raised = "none" THEN "returned" ELSE "raised"
    /\ sfFrame

InitSf ==
    /\ pc = "idle"
    /\ err = "none"
    /\ trace = <<>>
    /\ html = NoHtml
    /\ PipelineIdle
    /\ ExtractIdle
    /\ CleanIdle
    /\ WrapperIdle

NextSf ==
    \/ ChangeValuesStart
    \/ ChangeValuesRow
    \/ ChangeValuesReturn
    \/ AddRelatedRecordsStart
    \/ AddRelatedRecordsRow
    \/ AddRelatedRecordsReturn
    \/ AddRecordCall

SpecSf == InitSf /\ [][NextSf]_vars

-----------------------------------------------------------------------------
(* Ichigo.map_width_to_master_code (src/ichigo_api.py) *)

MaxUnits == 150       \* largest decimal thickness given, in 1/10 000
MaxWhole == 1         \* largest whole part of a mixed number given

UnitsPerOne == 10000  \* lines 301 and 323: a master code counts 1/10 000

DigitSeq == <<"0", "1", "2", "3", "4", "5", "6", "7", "8", "9">>
Digits == {DigitSeq[i] : i \in 1..10}
DigitVal(c) == (CHOOSE i \in 1..10 : DigitSeq[i] = c) - 1

\* str(n) of a natural number
RECURSIVE StrOfNat(_)
StrOfNat(n) ==
    IF n < 10 THEN <<DigitSeq[n + 1]>>
    ELSE StrOfNat(n \div 10) \o <<DigitSeq[(n % 10) + 1]>>

\* int(s) of a string of digits
RECURSIVE NatOf(_)
NatOf(s) ==
    IF s = <<>> THEN 0
    ELSE NatOf(SubSeq(s, 1, Len(s) - 1)) * 10 + DigitVal(s[Len(s)])

AllDigits(s) == s # <<>> /\ \A i \in 1..Len(s) : s[i] \in Digits

RECURSIVE Pow10(_)
Pow10(n) == IF n = 0 THEN 1 ELSE 10 * Pow10(n - 1)

Cal(n) == <<"C", "a", "l", ".", " ">> \o StrOfNat(n)

\* lines 272-304, in insertion order
equivalencias_calibres ==
    <<
       <<Cal(32), 90>>,
       <<Cal(30), 120>>,
       <<Cal(29), 135>>,
       <<Cal(28), 149>>,
       <<Cal(27), 164>>,
       <<Cal(26), 179>>,
       <<Cal(25), 209>>,
       <<Cal(24), 239>>,
       <<Cal(23), 269>>,
       <<Cal(22), 299>>,
       <<Cal(21), 329>>,
       <<Cal(20), 359>>,
       <<Cal(19), 418>>,
       <<Cal(18), 478>>,
       <<Cal(17), 538>>,
       <<Cal(16), 598>>,
       <<Cal(15), 673>>,
       <<Cal(14), 747>>,
       <<Cal(13), 897>>,
       <<Cal(12), 1046>>,
       <<Cal(11), 1196>>,
       <<Cal(10), 1345>>,
       <<Cal(9), 1495>>,
       <<Cal(8), 1644>>,
       <<Cal(7), 1443>>,
       <<Cal(6), 1620>>,
       <<Cal(5), 1819>>,
       <<Cal(4), 2043>>,
       <<Cal(3), 2294>>,
       <<<<"X", "X", "S">>, 1>>,
       <<<<"X">>, 5>>
    >>

TableKeys == {equivalencias_calibres[i][1] : i \in 1..Len(equivalencias_calibres)}
TableCodes == {equivalencias_calibres[i][2] : i \in 1..Len(equivalencias_calibres)}

\* equivalencias_calibres[key]
CodeOfKey(key) ==
    equivalencias_calibres[CHOOSE i \in 1..Len(equivalencias_calibres) :
                              equivalencias_calibres[i][1] = key][2]

\* get_key, lines 306-310: the first key of the code, else val / 10_000
get_key(val) ==
    LET hits == {i \in 1..Len(equivalencias_calibres) :
                    equivalencias_calibres[i][2] = val}
    IN  IF hits = {} THEN PyFloat(val)
        ELSE PyKey(equivalencias_calibres[CHOOSE i \in hits : \A j \in hits : i <= j][1])

\* re.sub(r"[^0-9/\. ]", "", value)
RECURSIVE KeepNumberChars(_)
KeepNumberChars(s) ==
    IF s = <<>> THEN <<>>
    ELSE (IF Head(s) \in Digits \cup {"/", ".", " "} THEN <<Head(s)>> ELSE <<>>)
         \o KeepNumberChars(Tail(s))

\* value.split(' ')
RECURSIVE SplitStr(_, _)
SplitStr(s, c) ==
    IF ~Contains(s, c) THEN <<s>>
    ELSE <<TakeUntil(s, c)>> \o SplitStr(DropThrough(s, c), c)

NotAFraction == [ok |-> FALSE, num |-> 0, den |-> 1]
Frac(num, den) == [ok |-> TRUE, num |-> num, den |-> den]

\* Fraction(frac) of digits, digits/digits or a decimal numeral
ParseFraction(t) ==
    IF AllDigits(t) THEN Frac(NatOf(t), 1)
    ELSE IF Contains(t, "/")
    THEN LET a == TakeUntil(t, "/")
             b == DropThrough(t, "/")
         IN  IF AllDigits(a) /\ AllDigits(b) /\ NatOf(b) # 0
             THEN Frac(NatOf(a), NatOf(b)) ELSE NotAFraction
    ELSE IF Contains(t, ".")
    THEN LET a == TakeUntil(t, ".")
             b == DropThrough(t, ".")
         IN  IF /\ a = <<>> \/ AllDigits(a)
                /\ b = <<>> \/ AllDigits(b)
                /\ a # <<>> \/ b # <<>>
             THEN Frac(NatOf(a) * Pow10(Len(b)) + NatOf(b), Pow10(Len(b)))
             ELSE NotAFraction
    ELSE NotAFraction

\* sum(fractions), as an exact fraction
RECURSIVE SumFractions(_)
SumFractions(tokens) ==
    IF tokens = <<>> THEN Frac(0, 1)
    ELSE LET h == ParseFraction(Head(tokens))
             r == SumFractions(Tail(tokens))
         IN  IF h.ok /\ r.ok THEN Frac(h.num * r.den + r.num * h.den, h.den * r.den)
             ELSE NotAFraction

\* the k for which the double nearest k/10000, times 10000, lies below k
\* (IEEE 754 binary64, k up to 300)
FloatBelow ==
    {3, 6, 12, 24, 29, 48, 58, 93, 96, 113, 116, 163, 169, 186, 192, 209, 215,
     226, 232, 249, 255}

\* int(sum(fractions) * 10_000), line 323: exact for halves, quarters, ...;
\* one less than the numeral's digits for the decimals of FloatBelow
IntOfProduct(f) ==
    IF f.den = UnitsPerOne /\ f.num \in FloatBelow THEN f.num - 1
    ELSE (f.num * UnitsPerOne) \div f.den

\* str(original_value)
StrOf(w) == IF w.int THEN StrOfNat(w.n) ELSE w.s

\* the cleaned numeral of line 321
Numeral(w) == Strip(KeepNumberChars(Replace(Lower(StrOf(w)), "-", <<" ">>)))

\* __fraction_to_float, lines 317-323
FractionToFloat(original_value) ==
    IF Contains(Lower(StrOf(original_value)), "c")
    THEN [raised |-> "none", value |-> original_value]
    ELSE LET f == SumFractions(SplitStr(Numeral(original_value), " "))
         IN  IF f.ok THEN [raised |-> "none", value |-> PyInt(IntOfProduct(f))]
             ELSE [raised |-> "ValueError", value |-> original_value]

\* map_width_to_master_code with inverse=False, lines 325-339
MapWidth(w, skip) ==
    LET converted == IF skip THEN [raised |-> "none", value |-> w]
                     ELSE FractionToFloat(w)
    IN  IF converted.raised # "none" THEN [raised |-> converted.raised, code |-> 0]
        ELSE IF converted.value # w THEN [raised |-> "none", code |-> converted.value.n]
        ELSE IF w.int \/ w.s \notin TableKeys THEN [raised |-> "ValueError", code |-> 0]
        ELSE [raised |-> "none", code |-> CodeOfKey(w.s)]

\* map_width_to_master_code with inverse=True, lines 312-315
MapInverse(w) ==
    IF ~w.int THEN [raised |-> "ValueError", key |-> PyFloat(0)]
    ELSE [raised |-> "none", key |-> get_key(w.n)]

\* "0.dddd"
Decimal(k) ==
    <<"0", ".">> \o [i \in 1..(4 - Len(StrOfNat(k))) |-> "0"] \o StrOfNat(k)

Denominators == {2, 4, 8, 16, 32, 64}

\* "n/d", "w n/d" and "w-n/d" with n odd, and the same with an inch mark
FractionTexts ==
    LET proper == UNION {{StrOfNat(n) \o <<"/">> \o StrOfNat(d) :
                             n \in {m \in 1..d : m % 2 = 1}} : d \in Denominators}
    IN  proper
        \cup {StrOfNat(w) \o sep \o p :
                 w \in 1..MaxWhole, sep \in {<<" ">>, <<"-">>}, p \in proper}
        \cup {<<"1", "/", "4", "\"">>, <<"1", " ", " ", "1", "/", "2">>}

Widths ==
    {PyStr(k) : k \in TableKeys}
    \cup {PyStr(Cal(31)), PyStr(Lower(Cal(32)))}
    \cup {PyStr(Decimal(k)) : k \in 1..MaxUnits}
    \cup {PyStr(t) : t \in FractionTexts}
    \cup {PyInt(n) : n \in 0..MaxWhole}

ichFrame ==
    /\ UNCHANGED <<pc, err, trace>>
    /\ UNCHANGED pipelineVars
    /\ UNCHANGED extractVars
    /\ UNCHANGED cleanVars
    /\ UNCHANGED mbVars
    /\ UNCHANGED sfVars
    /\ UNCHANGED dimVars
    /\ UNCHANGED ctorVars
    /\ UNCHANGED rtVars
    /\ UNCHANGED shVars
    /\ UNCHANGED mpVars
    /\ UNCHANGED mrVars

\* map_width_to_master_code(width, skip_conversion)
IchForward ==
    /\ ich_pc = "idle"
    /\ width' \in Widths
    /\ skip_conversion' \in BOOLEAN
    /\ \E r \in {MapWidth(width', skip_conversion')} :
          /\ master_code' = r.code
          /\ ich_err' = r.raised
          /\ ich_pc' = IF r.raised = "none" THEN "forward" ELSE "rejected"
    /\ UNCHANGED ich_back
    /\ ichFrame

\* map_width_to_master_code(master_code, inverse=True)
IchInverse ==
    /\ ich_pc = "forward"
    /\ \E r \in {MapInverse(PyInt(master_code))} :
          /\ ich_back' = r.key
          /\ ich_err' = r.raised
          /\ ich_pc' = IF r.raised = "none" THEN "inverted" ELSE "rejected"
    /\ UNCHANGED <<width, skip_conversion, master_code>>
    /\ ichFrame

InitIchigo ==
    /\ pc = "idle"
    /\ err = "none"
    /\ trace = <<>>
    /\ html = NoHtml
    /\ PipelineIdle
    /\ ExtractIdle
    /\ CleanIdle
    /\ WrapperIdle

NextIchigo == IchForward \/ IchInverse

SpecIchigo == InitIchigo /\ [][NextIchigo]_vars

-----------------------------------------------------------------------------
(* SalesforceFunctions.change_multiple_values and add_multiple_records *)

\* the rows of df: the index, then the value of the single column
MultiRows == {<<id, v>> : id \in SfIds, v \in {"v", "w"}}

MultiTables == UNION {[1..n -> MultiRows] : n \in 0..MaxSfRows}

\* lines 166 and 241: df.transpose().to_dict(), one entry per index label, at
\* the position of its first row and with the values of its last
RECURSIVE ToDict(_, _, _)
ToDict(rows, k, d) ==
    IF k > Len(rows) THEN d
    ELSE ToDict(rows, k + 1, DictSet(d, rows[k][1], rows[k][2]))

mrFrame ==
    /\ UNCHANGED <<pc, err, trace>>
    /\ UNCHANGED pipelineVars
    /\ UNCHANGED extractVars
    /\ UNCHANGED cleanVars
    /\ UNCHANGED mbVars
    /\ UNCHANGED ichVars
    /\ UNCHANGED dimVars
    /\ UNCHANGED ctorVars
    /\ UNCHANGED rtVars
    /\ UNCHANGED shVars
    /\ UNCHANGED mpVars

\* lines 165-168 and 237-241
MultipleStart(op) ==
    /\ SfFree
    /\ sf_op' = op
    /\ columns' = <<"Name">>
    /\ df' \in MultiTables
    /\ dictionary' = ToDict(df', 1, <<>>)
    /\ sf_remote' \in [1..Len(df') -> Outcomes]
    /\ verbose' \in BOOLEAN
    /\ handle_exception' = FALSE
    /\ sf_i' = 1
    /\ errors' = <<>>
    /\ sf_attempts' = <<>>
    /\ mr_calls' = <<>>
    /\ sf_err' = "none"
    /\ sf_out' = NoResponse
    /\ sf_pc' = "batch"
    /\ mrFrame

\* one iteration of the loop over dictionary.items(), lines 169-181 and 243-255
MultipleRow(call, error) ==
    /\ sf_pc = "batch"
    /\ sf_i <= Len(dictionary)
    /\ sf_attempts' = Append(sf_attempts, sf_i)
    /\ mr_calls' = Append(mr_calls, dictionary[sf_i])
    /\ errors' = IF call.raised = "none" THEN errors ELSE Append(errors, error)
    /\ sf_i' = sf_i + 1
    /\ UNCHANGED <<sf_op, df, columns, verbose, handle_exception, sf_remote,
                   sf_out, sf_err, sf_pc, dictionary>>
    /\ mrFrame

\* return errors, lines 182 and 256
MultipleReturn(op) ==
    /\ sf_pc = "batch"
    /\ sf_op = op
    /\ sf_i > Len(dictionary)
    /\ sf_out' = [given |-> TRUE, errors |-> errors, id |-> None, success |-> TRUE]
    /\ sf_pc' = "returned"
    /\ UNCHANGED <<sf_op, df, columns, verbose, handle_exception, sf_remote,
                   sf_i, errors, sf_attempts, sf_err>>
    /\ UNCHANGED mrVars
    /\ mrFrame

\* change_multiple_values, lines 157-168
ChangeMultipleValuesStart ==
    /\ SfFree
    /\ MultipleStart("change_multiple_values")

\* change_multiple_values, lines 169-181: errors.append(sf_id)
ChangeMultipleValuesRow ==
    /\ sf_op = "change_multiple_values"
    /\ sf_pc = "batch"
    /\ sf_i <= Len(dictionary)
    /\ MultipleRow(UpdateRecord(sf_remote[sf_i]), dictionary[sf_i].k)

\* change_multiple_values, line 182
ChangeMultipleValuesReturn ==
    /\ sf_op = "change_multiple_values"
    /\ MultipleReturn("change_multiple_values")

\* add_multiple_records, lines 227-241
AddMultipleRecordsStart ==
    /\ SfFree
    /\ MultipleStart("add_multiple_records")

\* add_multiple_records, lines 243-255: errors.append(data_dict)
AddMultipleRecordsRow ==
    /\ sf_op = "add_multiple_records"
    /\ sf_pc = "batch"
    /\ sf_i <= Len(dictionary)
    /\ MultipleRow(AddRecord(FALSE, sf_remote[sf_i]), dictionary[sf_i].v)

\* add_multiple_records, line 256
AddMultipleRecordsReturn ==
    /\ sf_op = "add_multiple_records"
    /\ MultipleReturn("add_multiple_records")

InitMulti ==
    /\ pc = "idle"
    /\ err = "none"
    /\ trace = <<>>
    /\ html = NoHtml
    /\ PipelineIdle
    /\ ExtractIdle
    /\ CleanIdle
    /\ WrapperIdle

NextMulti ==
    \/ ChangeMultipleValuesStart
    \/ ChangeMultipleValuesRow
    \/ ChangeMultipleValuesReturn
    \/ AddMultipleRecordsStart
    \/ AddMultipleRecordsRow
    \/ AddMultipleRecordsReturn

SpecMulti == InitMulti /\ [][NextMulti]_vars

-----------------------------------------------------------------------------
(* MPsFinder.__execute_query_in_mb (src/mps_finder.py) *)

\* what warnings.warn does with a UserWarning: "default" prints it and
\* returns, "error" raises it; src never sets the filter
WarnFilters == {"default", "error"}

\* mb_connection.py lines 114-151: the rows, at most RowLimit of them, and
\* whether the warning of line 150 is issued
QueryData(source) ==
    LET rows == SubSeq(source, 1, IF Len(source) < RowLimit THEN Len(source) ELSE RowLimit)
    IN  [rows |-> rows, warns |-> Len(rows) = RowLimit]

mpFrame ==
    /\ UNCHANGED <<pc, err, trace>>
    /\ UNCHANGED pipelineVars
    /\ UNCHANGED extractVars
    /\ UNCHANGED cleanVars
    /\ UNCHANGED sfVars
    /\ UNCHANGED ichVars
    /\ UNCHANGED dimVars
    /\ UNCHANGED ctorVars
    /\ UNCHANGED rtVars
    /\ UNCHANGED shVars
    /\ UNCHANGED mrVars

\* lines 60-68: the try block; the except clause runs only if warnings.warn
\* raised, and then line 67 asserts that id_col was given
MpsQueryData ==
    /\ mp_pc = "idle"
    /\ mb_pc = "ready"
    /\ \E r \in {QueryData(mb_source)} :
          /\ mp_warned' = r.warns
          /\ IF r.warns /\ warn_filter = "error"
             THEN IF id_col
                  THEN /\ mp_pc' = "fallback"
                       /\ UNCHANGED <<mb_data, mp_err>>
                  ELSE /\ mp_pc' = "raised"
                       /\ mp_err' = "AssertionError"
                       /\ UNCHANGED mb_data
             ELSE /\ mb_data' = r.rows
                  /\ mp_pc' = "returned"
                  /\ UNCHANGED mp_err
          /\ mb_out' = [op |-> "query_data", status |-> "ok", auth |-> headers,
                        rows |-> r.rows]
    /\ mb_ops' = mb_ops + 1
    /\ UNCHANGED <<warn_filter, id_col, mb_pc, mb_source>>
    /\ UNCHANGED authVars
    /\ UNCHANGED pagingVars
    /\ mpFrame

\* lines 68-72: query_more_data(query, database_id, id_col), min_value = 0
MpsQueryMoreData ==
    /\ mp_pc = "fallback"
    /\ mb_pc = "ready"
    /\ mb_out.op # "query_more_data"
    /\ min_value' = 0
    /\ max_value' = Num(0)
    /\ data_list' = <<>>
    /\ cursors' = <<>>
    /\ mb_pc' = "paging"
    /\ UNCHANGED <<mb_ops, mb_source, mb_out>>
    /\ UNCHANGED authVars
    /\ UNCHANGED mpVars
    /\ mpFrame

\* line 74: return mb_data, after query_more_data has returned
MpsReturn ==
    /\ mp_pc = "fallback"
    /\ mb_pc = "ready"
    /\ mb_out.op = "query_more_data"
    /\ mb_data' = mb_out.rows
    /\ mp_pc' = "returned"
    /\ UNCHANGED <<warn_filter, id_col, mp_warned, mp_err>>
    /\ UNCHANGED mbVars
    /\ mpFrame

InitMps ==
    /\ pc = "idle"
    /\ err = "none"
    /\ trace = <<>>
    /\ html = NoHtml
    /\ PipelineIdle
    /\ ExtractIdle
    /\ CleanIdle
    /\ mb_pc = "ready"
    /\ mb_creds = [api_key |-> TRUE, new_login |-> FALSE, is_path |-> FALSE]
    /\ SESSION_ID = "api_key"
    /\ headers = [name |-> "x-api-key", value |-> "api_key"]
    /\ mb_logins = 0
    /\ mb_ops = 0
    /\ mb_source \in Sources
    /\ min_value = 0
    /\ max_value = Num(0)
    /\ data_list = <<>>
    /\ cursors = <<>>
    /\ mb_out = NoMbOut
    /\ SfIdle
    /\ IchIdle
    /\ DimIdle
    /\ CtorIdle
    /\ RtIdle
    /\ ShIdle
    /\ mp_pc = "idle"
    /\ warn_filter \in WarnFilters
    /\ id_col \in BOOLEAN
    /\ mb_data = <<>>
    /\ mp_warned = FALSE
    /\ mp_err = "none"
    /\ MrIdle

NextMps ==
    \/ MpsQueryData
    \/ MpsQueryMoreData
    \/ (mp_pc = "fallback" /\ MbQueryMorePage)
    \/ (mp_pc = "fallback" /\ MbQueryMoreReturn)
    \/ MpsReturn

SpecMps == InitMps /\ [][NextMps]_vars

-----------------------------------------------------------------------------
(* SalesforceFunctions.get_record_type_id (src/sf_connection.py) *)

MaxRecordTypes == 2   \* most RecordType records in the org

RtIds == {<<"0","1","2","A">>, <<"0","1","2","B">>}
SObjects == {"Account", "Product2"}
RtNames == {"Manufacturing", "Raw Materials Partner"}

\* a record as sf.query_all returns it
RtRecord(id, sobject, name) ==
    [attributes |-> "RecordType", Id |-> id, SobjectType |-> sobject, Name |-> name]

RtRecords == {RtRecord(i, o, n) : i \in RtIds, o \in SObjects, n \in RtNames}

\* the orgs: records with distinct ids
Orgs ==
    {t \in UNION {[1..n -> RtRecords] : n \in 0..MaxRecordTypes} :
        \A i, j \in 1..Len(t) : t[i].Id = t[j].Id => i = j}

\* sf.query_all of the query of lines 271-275
QueryAllRecordType(table, sobject, name) ==
    SelectSeq(table, LAMBDA r : r.SobjectType = sobject /\ r.Name = name)

\* line 46: pd.DataFrame(records).drop(['attributes'], axis=1); a frame built
\* from no records has no column 'attributes' and drop raises KeyError
extract_data(records) ==
    IF records = <<>>
    THEN [raised |-> "KeyError", rows |-> <<>>]
    ELSE [raised |-> "none", rows |-> [i \in 1..Len(records) |-> [Id |-> records[i].Id]]]

\* lines 269-278: .Id[0] of the extracted frame; only IndexError is caught
GetRecordTypeId(table, sobject, name) ==
    LET data == extract_data(QueryAllRecordType(table, sobject, name))
    IN  IF data.raised = "IndexError" THEN [raised |-> "none", id |-> None]
        ELSE IF data.raised # "none" THEN [raised |-> data.raised, id |-> None]
        ELSE [raised |-> "none", id |-> Str(data.rows[1].Id)]

rtFrame ==
    /\ UNCHANGED <<pc, err, trace>>
    /\ UNCHANGED pipelineVars
    /\ UNCHANGED extractVars
    /\ UNCHANGED cleanVars
    /\ UNCHANGED mbVars
    /\ UNCHANGED sfVars
    /\ UNCHANGED ichVars
    /\ UNCHANGED dimVars
    /\ UNCHANGED ctorVars
    /\ UNCHANGED shVars
    /\ UNCHANGED mpVars
    /\ UNCHANGED mrVars

\* get_record_type_id(sobject, record_type_name)
GetRecordTypeIdCall ==
    /\ rt_pc = "idle"
    /\ \E sobject \in SObjects, name \in RtNames :
          /\ rt_query' = [sobject |-> sobject, record_type_name |-> name]
          /\ \E r \in {GetRecordTypeId(record_types, sobject, name)} :
                /\ rt_id' = r.id
                /\ rt_err' = r.raised
                /\ rt_pc' = IF r.raised = "none" THEN "returned" ELSE "raised"
    /\ UNCHANGED record_types
    /\ rtFrame

InitRt ==
    /\ pc = "idle"
    /\ err = "none"
    /\ trace = <<>>
    /\ html = NoHtml
    /\ PipelineIdle
    /\ ExtractIdle
    /\ CleanIdle
    /\ MbIdle
    /\ SfIdle
    /\ IchIdle
    /\ DimIdle
    /\ CtorIdle
    /\ rt_pc = "idle"
    /\ record_types \in Orgs
    /\ rt_query = NoRtQuery
    /\ rt_id = None
    /\ rt_err = "none"
    /\ ShIdle
    /\ MpIdle
    /\ MrIdle

NextRt == GetRecordTypeIdCall

SpecRt == InitRt /\ [][NextRt]_vars

-----------------------------------------------------------------------------
(* SheetsFunctions.modify_record and write_dataframe (src/sheets_functions.py) *)

MaxSheetRows == 2     \* most records under the header row

\* the header row of the worksheet
Header == <<"name", "edad", "sexo">>

CellValues == {PyStr(<<"m">>), PyInt(2)}
IdValues == {PyStr(<<"m">>), PyInt(2), PyStr(<<"2">>)}
NewValues == {PyStr(<<"h">>), PyInt(2)}

\* the worksheets: the header row and up to MaxSheetRows records
Worksheets ==
    {<<Header>> \o rows : rows \in SeqsUpTo([1..Len(Header) -> CellValues], MaxSheetRows)}

\* the dicts with at most two of the columns as keys and values from V
DictsOver(V) ==
    {<<>>}
    \cup {<<[k |-> Header[c], v |-> v]>> : c \in 1..Len(Header), v \in V}
    \cup UNION {{<<[k |-> Header[c], v |-> v], [k |-> Header[d], v |-> w]>> :
                    d \in (c + 1)..Len(Header), v \in V, w \in V} :
                c \in 1..Len(Header)}

ColumnIndex(columns_, col_name) ==
    CHOOSE c \in 1..Len(columns_) : columns_[c] = col_name

\* line 177: one term of the query, "col == 'value'" for a str and
\* "col == value" otherwise
QueryTerm(col_name, value) ==
    [col |-> col_name,
     literal |-> IF value.int THEN StrOfNat(value.n)
                 ELSE <<"'">> \o value.s \o <<"'">>]

\* line 177: the terms joined by ' and '
BuildQuery(id) == [t \in 1..Len(id) |-> QueryTerm(id[t].k, id[t].v)]

\* the value a literal of the query denotes
LiteralValue(literal) ==
    IF Head(literal) = "'"
    THEN PyStr(SubSeq(literal, 2, Len(literal) - 1))
    ELSE PyInt(NatOf(literal))

\* line 180: self.__ws.get_all_records(), the rows under the header row
get_all_records(sheet) == IF Len(sheet) <= 1 THEN <<>> ELSE Tail(sheet)

\* line 181: a row satisfies the query when it satisfies every term
RowMatchesAny(columns_, row, query) ==
    \E t \in 1..Len(query) :
       row[ColumnIndex(columns_, query[t].col)] = LiteralValue(query[t].literal)
RowMatches(columns_, row, query) ==
    \A t \in 1..Len(query) :
       row[ColumnIndex(columns_, query[t].col)] = LiteralValue(query[t].literal)

\* lines 181-182: df.query(query).index
QueryIndex(columns_, rows, query) ==
    {i \in 1..Len(rows) : RowMatches(columns_, rows[i], query)}

\* line 186: df.loc[index, col_name] = value
LocSet(columns_, rows, index, col_name, value) ==
    [i \in 1..Len(rows) |->
        IF i \in index
        THEN [rows[i] EXCEPT ![ColumnIndex(columns_, col_name)] = value]
        ELSE rows[i]]

\* lines 185-186: the loop over values.items()
RECURSIVE SetValues(_, _, _, _, _)
SetValues(columns_, rows, index, values_, k) ==
    IF k > Len(values_) THEN rows
    ELSE SetValues(columns_,
                   LocSet(columns_, rows, index, values_[k].k, values_[k].v),
                   index, values_, k + 1)

\* line 115: self.__ws.update([df.columns.values.tolist()] + df.values.tolist()),
\* which writes the table from the first cell and keeps what lies beyond it
write_dataframe(sheet, columns_, rows) ==
    LET data == <<columns_>> \o rows
    IN  [i \in 1..(IF Len(sheet) > Len(data) THEN Len(sheet) ELSE Len(data)) |->
            IF i <= Len(data) THEN data[i] ELSE sheet[i]]

\* lines 162-189; df.query raises ValueError on an empty expression and
\* UndefinedVariableError when the frame, built from no records, has no columns
ModifyRecord(sheet, id, values_) ==
    LET records == get_all_records(sheet)
        query == BuildQuery(id)
    IN  IF query = <<>> THEN [raised |-> "ValueError", sheet |-> sheet]
        ELSE IF records = <<>>
        THEN [raised |-> "UndefinedVariableError", sheet |-> sheet]
        ELSE [raised |-> "none",
              sheet |-> write_dataframe(sheet, Head(sheet),
                           SetValues(Head(sheet), records,
                                     QueryIndex(Head(sheet), records, query),
                                     values_, 1))]

shFrame ==
    /\ UNCHANGED <<pc, err, trace>>
    /\ UNCHANGED pipelineVars
    /\ UNCHANGED extractVars
    /\ UNCHANGED cleanVars
    /\ UNCHANGED mbVars
    /\ UNCHANGED sfVars
    /\ UNCHANGED ichVars
    /\ UNCHANGED dimVars
    /\ UNCHANGED ctorVars
    /\ UNCHANGED rtVars
    /\ UNCHANGED mpVars
    /\ UNCHANGED mrVars

\* modify_record(id, values)
ModifyRecordCall ==
    /\ sh_pc = "idle"
    /\ \E id \in DictsOver(IdValues), values_ \in DictsOver(NewValues) :
          /\ sh_id' = id
          /\ sh_values' = values_
          /\ \E r \in {ModifyRecord(worksheet, id, values_)} :
                /\ worksheet' = r.sheet
                /\ sh_err' = r.raised
                /\ sh_pc' = IF r.raised = "none" THEN "returned" ELSE "raised"
    /\ UNCHANGED sheet_before
    /\ shFrame

InitSheets ==
    /\ pc = "idle"
    /\ err = "none"
    /\ trace = <<>>
    /\ html = NoHtml
    /\ PipelineIdle
    /\ ExtractIdle
    /\ CleanIdle
    /\ MbIdle
    /\ SfIdle
    /\ IchIdle
    /\ DimIdle
    /\ CtorIdle
    /\ RtIdle
    /\ sh_pc = "idle"
    /\ worksheet \in Worksheets
    /\ sheet_before = worksheet
    /\ sh_id = <<>>
    /\ sh_values = <<>>
    /\ sh_err = "none"
    /\ MpIdle
    /\ MrIdle

NextSheets == ModifyRecordCall

SpecSheets == InitSheets /\ [][NextSheets]_vars

-----------------------------------------------------------------------------
(* Ichigo.__init__ and the requests of an Ichigo object (src/ichigo_api.py) *)

MaxPosts == 2         \* most requests made through one Ichigo object

\* line 32
valid_connect_to_options == {"ichigo", "uat"}

\* line 28, the docstring of connect_to
DocumentedOptions == {"production", "uat"}

ConnectTos == {"production", "uat", "ichigo", "staging", ""}
Tokens == {"Bearer a", "Bearer b"}

\* lines 36-37: base_endpoint.format(connect_to=connect_to)
FormatEndpoint(c) == <<"https://api.", c, ".prima.ai/graphql/">>

\* the methods that post to the endpoint, lines 91, 151, 179, 199, 235, 379, 517
PostingMethods ==
    {"create_master_code", "create_item", "remove_item_catalogue",
     "get_master_code_types", "get_max_order_master_codes",
     "load_items_catalog", "update_item"}

ctorFrame ==
    /\ UNCHANGED <<pc, err, trace>>
    /\ UNCHANGED pipelineVars
    /\ UNCHANGED extractVars
    /\ UNCHANGED cleanVars
    /\ UNCHANGED mbVars
    /\ UNCHANGED sfVars
    /\ UNCHANGED ichVars
    /\ UNCHANGED dimVars
    /\ UNCHANGED rtVars
    /\ UNCHANGED shVars
    /\ UNCHANGED mpVars
    /\ UNCHANGED mrVars

\* lines 20-41
IchigoInit ==
    /\ ctor_pc = "idle"
    /\ \E c \in ConnectTos, token \in Tokens :
          /\ connect_to' = c
          /\ IF c \notin valid_connect_to_options
             THEN /\ ctor_pc' = "raised"
                  /\ UNCHANGED <<endpoint, ich_headers>>
             ELSE /\ endpoint' = FormatEndpoint(c)
                  /\ ich_headers' = <<token, "application/json">>
                  /\ ctor_pc' = "built"
    /\ UNCHANGED posts
    /\ ctorFrame

\* requests.post(self.__endpoint, headers=self.__headers, json=json_data)
IchigoPost ==
    /\ ctor_pc = "built"
    /\ Len(posts) < MaxPosts
    /\ \E method \in PostingMethods :
          posts' = Append(posts, [url |-> endpoint, headers |-> ich_headers,
                                  method |-> method])
    /\ UNCHANGED <<ctor_pc, connect_to, endpoint, ich_headers>>
    /\ ctorFrame

InitCtor ==
    /\ pc = "idle"
    /\ err = "none"
    /\ trace = <<>>
    /\ html = NoHtml
    /\ PipelineIdle
    /\ ExtractIdle
    /\ CleanIdle
    /\ WrapperIdle

NextCtor == IchigoInit \/ IchigoPost

SpecCtor == InitCtor /\ [][NextCtor]_vars

-----------------------------------------------------------------------------
(* Ichigo.build_dimensions (src/ichigo_api.py) *)

MaxExtra == 1         \* most arguments given beyond the family's necessary ones

Families == {"plano", "perfil", "polin", "viga-canal", "largo-solido", "tuberia"}

\* the names whose values necessary_values[family] lists, lines 408-415
NecessaryNames(fam) ==
    CASE fam = "plano" ->
           <<"thickness", "width_unit", "width_value", "length_unit", "length_value">>
      [] fam = "perfil" ->
           <<"thickness", "wall_length", "wall_width", "length_unit", "length_value">>
      [] fam = "polin" -> <<"thickness", "length_unit", "length_value", "A", "B">>
      [] fam = "viga-canal" -> <<"length_unit", "length_value", "kg_m", "depth">>
      [] fam = "largo-solido" -> <<"thickness", "length_unit", "length_value">>
      [] fam = "tuberia" -> <<"thickness", "length_unit", "length_value", "diameter">>

\* necessary_values[family]: the values, not the names
necessary_values(fam, a) ==
    [i \in 1..Len(NecessaryNames(fam)) |-> a[NecessaryNames(fam)[i]]]

\* value in necessary_values[family]
InList(v, list) == \E i \in 1..Len(list) : list[i] = v

\* bool(value)
Truthy(v) ==
    \/ v.kind = "nan"
    \/ v.kind = "num" /\ v.n # 0
    \/ v.kind = "str" /\ v.s # <<>>

\* validate_inputs, lines 417-419
validate_inputs(fam, a) ==
    \A i \in 1..Len(NecessaryNames(fam)) :
       necessary_values(fam, a)[i] \notin {AbsentV, NaNV}

Entry(typeCode, unitCode, measure) ==
    [typeCode |-> typeCode, unitCode |-> unitCode, measure |-> measure]

Inch == StrV(<<"I", "n", "c", "h">>)
Feet == StrV(<<"F", "e", "e", "t">>)

\* the width map_width_to_master_code receives
AsWidth(v) == IF v.kind = "str" THEN PyStr(v.s) ELSE PyInt(v.n)

\* float(cedula) succeeds
FloatParses(v) ==
    \/ v.kind \in {"num", "nan"}
    \/ v.kind = "str" /\ ~Contains(v.s, "/") /\ ParseFraction(v.s).ok

\* lines 425-473 for one argument: the entries it adds
IfNecessary(fam, a, name, entries) ==
    IF Truthy(a[name]) /\ InList(a[name], necessary_values(fam, a))
    THEN entries ELSE <<>>

\* lines 424-486: [raised, dimensions]
BuildDimensions(fam, a) ==
    LET thick == MapWidth(AsWidth(a["thickness"]), FALSE)
        thickWanted == Truthy(a["thickness"])
                       /\ InList(a["thickness"], necessary_values(fam, a))
        ced == MapWidth(AsWidth(a["cedula"]), TRUE)
        cedMapped == Truthy(a["cedula"]) /\ ~FloatParses(a["cedula"])
    IN  IF ~validate_inputs(fam, a) THEN [raised |-> "ValueError", dimensions |-> <<>>]
        ELSE IF thickWanted /\ thick.raised # "none"
        THEN [raised |-> thick.raised, dimensions |-> <<>>]
        ELSE IF cedMapped /\ ced.raised # "none"
        THEN [raised |-> ced.raised, dimensions |-> <<>>]
        ELSE [raised |-> "none",
              dimensions |->
                 (IF thickWanted
                  THEN <<Entry("Thickness", AbsentV, NumV(thick.code))>> ELSE <<>>)
                 \o IfNecessary(fam, a, "width_value",
                       <<Entry("Width", a["width_unit"], a["width_value"])>>)
                 \o IfNecessary(fam, a, "length_value",
                       <<Entry("Length", a["length_unit"], a["length_value"])>>)
                 \o IfNecessary(fam, a, "wall_length",
                       <<Entry("Wall length", Inch, a["wall_length"])>>)
                 \o IfNecessary(fam, a, "wall_width",
                       <<Entry("Wall width", Inch, a["wall_width"])>>)
                 \o IfNecessary(fam, a, "A", <<Entry("A", Inch, a["A"])>>)
                 \o IfNecessary(fam, a, "B", <<Entry("B", Inch, a["B"])>>)
                 \o (IF Truthy(a["C"]) /\ a["C"] # NaNV
                     THEN <<Entry("C", Inch, a["C"])>> ELSE <<>>)
                 \o (IF Truthy(a["D"]) /\ a["D"] # NaNV
                     THEN <<Entry("D", Inch, a["D"])>> ELSE <<>>)
                 \o IfNecessary(fam, a, "kg_m", <<Entry("Kg/m", AbsentV, a["kg_m"])>>)
                 \o (IF Truthy(a["depth"]) /\ InList(a["kg_m"], necessary_values(fam, a))
                     THEN <<Entry("Depth", AbsentV, a["depth"])>> ELSE <<>>)
                 \o IfNecessary(fam, a, "diameter",
                       <<Entry("External diameter", Inch, a["diameter"]),
                         Entry("Nominal diameter", Inch, a["diameter"])>>)
                 \o (IF ~Truthy(a["cedula"]) THEN <<>>
                     ELSE IF cedMapped THEN <<Entry("Depth", AbsentV, NumV(ced.code))>>
                     ELSE <<Entry("Depth", AbsentV, a["cedula"])>>)]

Quarter == StrV(<<"1", "/", "4">>)
XXS == StrV(<<"X", "X", "S">>)

\* the values given to a necessary argument
NecessaryDomain(name) ==
    IF name = "thickness" THEN {AbsentV, Quarter, XXS}
    ELSE IF name \in {"width_unit", "length_unit"} THEN {AbsentV, Feet}
    ELSE {AbsentV, NaNV, NumV(0), NumV(6)}

\* the values given to an argument the family does not need
ExtraDomain(name) ==
    IF name = "thickness" THEN {Quarter}
    ELSE IF name \in {"width_unit", "length_unit"} THEN {Feet}
    ELSE IF name = "cedula" THEN {NumV(40), XXS}
    ELSE IF name \in {"C", "D"} THEN {NaNV, NumV(6)}
    ELSE {NumV(6), NumV(12)}

NecessarySet(fam) == {NecessaryNames(fam)[i] : i \in 1..Len(NecessaryNames(fam))}

ExtraSets(fam) ==
    {S \in SUBSET (ArgNameSet \ NecessarySet(fam)) : Cardinality(S) <= MaxExtra}

\* the argument values by position, for the first k names
RECURSIVE Assignments(_, _, _)
Assignments(fam, extra, k) ==
    IF k = 0 THEN {<<>>}
    ELSE {Append(p, v) :
             p \in Assignments(fam, extra, k - 1),
             v \in IF ArgNames[k] \in NecessarySet(fam) THEN NecessaryDomain(ArgNames[k])
                   ELSE IF ArgNames[k] \in extra THEN ExtraDomain(ArgNames[k])
                   ELSE {AbsentV}}

ArgIndex(name) == CHOOSE i \in 1..Len(ArgNames) : ArgNames[i] = name

dimFrame ==
    /\ UNCHANGED <<pc, err, trace>>
    /\ UNCHANGED pipelineVars
    /\ UNCHANGED extractVars
    /\ UNCHANGED cleanVars
    /\ UNCHANGED mbVars
    /\ UNCHANGED sfVars
    /\ UNCHANGED ichVars
    /\ UNCHANGED ctorVars
    /\ UNCHANGED rtVars
    /\ UNCHANGED shVars
    /\ UNCHANGED mpVars
    /\ UNCHANGED mrVars

\* build_dimensions(family, ...)
BuildDimensionsCall ==
    /\ bd_pc = "idle"
    /\ \E fam \in Families :
       \E extra \in ExtraSets(fam) :
       \E p \in Assignments(fam, extra, Len(ArgNames)) :
       \E a \in {[name \in ArgNameSet |-> p[ArgIndex(name)]]} :
       \E r \in {BuildDimensions(fam, a)} :
          /\ family' = fam
          /\ bd_args' = a
          /\ dimensions' = r.dimensions
          /\ bd_err' = r.raised
          /\ bd_pc' = IF r.raised = "none" THEN "returned" ELSE "raised"
    /\ dimFrame

InitDims ==
    /\ pc = "idle"
    /\ err = "none"
    /\ trace = <<>>
    /\ html = NoHtml
    /\ PipelineIdle
    /\ ExtractIdle
    /\ CleanIdle
    /\ WrapperIdle

NextDims == BuildDimensionsCall

SpecDims == InitDims /\ [][NextDims]_vars

-----------------------------------------------------------------------------
(* Auxiliary operators of the properties *)

IsPrefix(s, t) == Len(s) <= Len(t) /\ SubSeq(t, 1, Len(s)) = s

InSeq(x, s) == \E i \in 1..Len(s) : s[i] = x

StageOrder == <<"convert", "decode", "fetch", "extract">>

InGetHtml == pc \in {"launch", "new_context", "goto", "content", "with_exit"}

\* the indices of tds the loop has processed so far
Processed == {walked[i] : i \in 1..Len(walked)}

SetMax(S) == CHOOSE m \in S : \A x \in S : x <= m

\* the normalized text of the nearest label cell before position j
LabelBefore(j) ==
    LET L == {i \in 1..(j - 1) : tds[i].span}
    IN  IF L = {} THEN Unbound ELSE Bound(CleanString(tds[SetMax(L)].text))

\* the processed value cells whose nearest preceding label normalizes to k
ValuesUnder(k) ==
    {j \in Processed : ~tds[j].span /\ LabelBefore(j) = Bound(k)}

\* text.strip() of a value cell, None when blank
Trimmed(t) == IF Strip(t) = <<>> THEN None ELSE Str(Strip(t))

InWalk == pc \in {"walk", "extracted"}

-----------------------------------------------------------------------------
(* Properties *)

\* C1: on every exit path of __get_html (normal return, or an exception raised
\* by launch or by page.goto) the driver is stopped and the browser and its
\* context are closed by the time control is outside __get_html.
C1_BrowserClosedOnExit ==
    ~InGetHtml => (browser # "open" /\ context # "open" /\ playwright # "running")

C1_Witness ==
    /\ pc = "raised"
    /\ err = "NavigationError"
    /\ browser = "closed"
    /\ context = "closed"
    /\ playwright = "stopped"

\* C2: process_pdf is all-or-nothing.  The stages entered form a prefix of
\* convert, decode, fetch, extract (order, no retry); a stage is entered only
\* when the one before it produced its result; once an error is raised it
\* propagates and no further stage runs; self.information changes only by the
\* final store of a call whose four stages all succeeded.
C2_StateInv ==
    /\ IsPrefix(trace, StageOrder)
    /\ InSeq("decode", trace) => img # NoImage
    /\ InSeq("fetch", trace) => url # None
    /\ InSeq("extract", trace) => (html # NoHtml /\ html = content)
    /\ err # "none" => pc \in {"raised", "with_exit"}
    /\ pc = "raised" => (err # "none" /\ result = NoResult /\ information = info_before)
    /\ information # info_before =>
          (pc = "returned" /\ trace = StageOrder /\ information.rec = values)

C2_Step ==
    /\ pc = "raised" => (pc' = "convert" /\ calls' = calls + 1)
    /\ (err # "none" /\ err' = err) => trace' = trace

C2_AllOrNothing == [](C2_StateInv) /\ [][C2_Step]_vars

C2_Witness ==
    /\ pc = "raised"
    /\ err = "UnboundLocalError"
    /\ trace = StageOrder
    /\ information.set
    /\ information = info_before

NombreKey == <<"n","o","m","b","r","e">>
EstadoKey == <<"e","s","t","a","d","o">>

\* the record of the sentinel example, in insertion order
SentinelRecord ==
    << [k |-> RfcKey, v |-> None],
       [k |-> NombreKey, v |-> Str(AcmeSa)],
       [k |-> AlKey, v |-> Str(Date2030)] >>

\* position j holds the value cell that directly follows an "AL:" label cell
AfterSentinel(j) ==
    /\ j >= 2
    /\ j <= Len(tds)
    /\ tds[j - 1].span
    /\ tds[j - 1].text = SentinelText
    /\ ~tds[j].span

\* C3: once the value cell that follows the label cell with text exactly "AL:"
\* has been processed, the walk is over: no later cell is processed and every
\* key of the record is rfc or the normalized label of an earlier cell.  For
\* the walked cells RFC:, "", Nombre, "ACME SA", AL:, "2030-01-01" followed by
\* anything, the record is exactly {rfc: None, nombre: "ACME SA",
\* al: "2030-01-01"}.
C3_EarlyTermination ==
    /\ \A j \in Processed :
          AfterSentinel(j) =>
             /\ pc = "extracted"
             /\ \A i \in Processed : i <= j
             /\ \A k \in DictKeys(values) :
                   k = RfcKey \/ \E i \in 1..(j - 1) :
                                    tds[i].span /\ CleanString(tds[i].text) = k
    /\ \A f \in Followers :
          html.tds = <<HeaderCell>> \o SentinelCells \o f =>
             /\ pc \in {"extract", "walk", "extracted"}
             /\ pc = "extracted" => values = SentinelRecord

C3_Witness ==
    /\ pc = "extracted"
    /\ html.tds = <<HeaderCell>> \o SentinelCells
                     \o <<LabelCell(Estado), ValueCell(Cdmx)>>
    /\ values = SentinelRecord
    /\ Len(walked) = 6

\* C4: the keys of the record are unique, and the value stored under a key
\* that the table has written is the value of the last processed value cell
\* whose nearest preceding label normalizes to that key; Estado, CDMX,
\* Estado, JALISCO gives estado = "JALISCO".
C4_LastWriteWins ==
    InWalk =>
      /\ \A i, j \in 1..Len(values) : values[i].k = values[j].k => i = j
      /\ \A k \in DictKeys(values) :
            ValuesUnder(k) # {} =>
               DictGet(values, k) = Trimmed(tds[SetMax(ValuesUnder(k))].text)
      /\ (pc = "extracted" /\ tds = EstadoCells) =>
            (DictHas(values, EstadoKey) /\ DictGet(values, EstadoKey) = Str(Jalisco))

C4_Witness ==
    /\ pc = "extracted"
    /\ tds = EstadoCells
    /\ Cardinality(ValuesUnder(EstadoKey)) = 2
    /\ DictGet(values, EstadoKey) = Str(Jalisco)

\* C5 as stated: every record has the key rfc and its value is the tax
\* identifier of the first list item ("R1" for "k: R1, z"), whatever the table
\* contains.
C5_RfcFromListItem ==
    (InWalk /\ html.li = Str(LiGood)) =>
       (DictHas(values, RfcKey) /\ DictGet(values, RfcKey) = Str(<<"R","1">>))

\* C5 amended: every record has the key rfc; its value is the tax identifier
\* of the first list item as long as no value cell has been recorded under a
\* table label that normalizes to rfc, and otherwise the value of the last
\* such cell.
C5_RfcUnlessOverwritten ==
    (InWalk /\ html.li = Str(LiGood)) =>
       /\ DictHas(values, RfcKey)
       /\ values[1].k = RfcKey
       /\ DictGet(values, RfcKey) =
             IF ValuesUnder(RfcKey) = {} THEN Str(<<"R","1">>)
             ELSE Trimmed(tds[SetMax(ValuesUnder(RfcKey))].text)

C5_Witness ==
    /\ pc = "extracted"
    /\ html.li = Str(LiGood)
    /\ ValuesUnder(RfcKey) # {}
    /\ DictGet(values, RfcKey) = None

\* C6: __clean_string is idempotent: applied to its own result it returns that
\* result unchanged.
C6_Idempotent ==
    (pc = "cleaned" /\ applied >= 2) => out.text = text

\* the letter a label letter becomes: lower case, accent removed
BaseLetter(c) ==
    CASE c = "B" -> "b"
      [] c = "U+00C9" -> "e"
      [] c = "U+00F1" -> "n"
      [] OTHER -> c

BaseWord(w) == [i \in 1..Len(w) |-> BaseLetter(w[i])]

\* the pieces of s between occurrences of c
RECURSIVE SplitOn(_, _)
SplitOn(s, c) ==
    IF ~Contains(s, c) THEN <<s>>
    ELSE <<TakeUntil(s, c)>> \o SplitOn(DropThrough(s, c), c)

\* ws is one of the generated word lists
IsWordList(ws) ==
    /\ Len(ws) \in 1..MaxWords
    /\ \A i \in 1..Len(ws) :
          /\ Len(ws[i]) \in 1..2
          /\ \A n \in 1..Len(ws[i]) : ws[i][n] \in Letters

\* C7: a label of words of letters separated by single spaces and ending in a
\* colon normalizes to its words in lower case without accents, joined by
\* single underscores, without the colon; "Regimen Fiscal:" with an accented
\* e gives regimen_fiscal.
C7_LabelToSnakeCase ==
    (pc = "cleaned" /\ applied = 1 /\ first # <<>> /\ first[Len(first)] = ":") =>
       /\ LET ws == SplitOn(SubSeq(first, 1, Len(first) - 1), " ")
          IN  (IsWordList(ws) /\ first = LabelText(ws)) =>
                 out.text = JoinWords([i \in 1..Len(ws) |-> BaseWord(ws[i])], <<"_">>)
       /\ first = RegimenFiscal =>
             out.text = <<"r","e","g","i","m","e","n","_","f","i","s","c","a","l">>

C7_Witness ==
    /\ pc = "cleaned"
    /\ applied = 1
    /\ first = RegimenFiscal
    /\ out.text = <<"r","e","g","i","m","e","n","_","f","i","s","c","a","l">>

\* C8 as stated: two words separated only by an underscore, a hyphen, a colon
\* or parentheses normalize to the two words joined by one underscore.
C8_MarksBecomeSeparators ==
    (pc = "cleaned" /\ applied = 1) =>
       /\ \A x, y \in Letters : \A m \in {"_", "-", ":"} :
             first = <<x, m, y>> => out.text = <<BaseLetter(x), "_", BaseLetter(y)>>
       /\ \A x, y \in Letters :
             first = <<x, "(", y, ")">> => out.text = <<BaseLetter(x), "_", BaseLetter(y)>>

\* C8 amended: underscores and hyphens are replaced by a space, so two words
\* separated only by one of them normalize to two tokens joined by one
\* underscore; colons and parentheses are deleted, so two words separated only
\* by one of them normalize to a single token ("a:b" and "a(b)" give ab).
C8_HyphenSeparatesColonJoins ==
    (pc = "cleaned" /\ applied = 1) =>
       /\ \A x, y \in Letters : \A m \in {"_", "-"} :
             first = <<x, m, y>> => out.text = <<BaseLetter(x), "_", BaseLetter(y)>>
       /\ \A x, y \in Letters :
             first = <<x, ":", y>> => out.text = <<BaseLetter(x), BaseLetter(y)>>
       /\ \A x, y \in Letters :
             first = <<x, "(", y, ")">> => out.text = <<BaseLetter(x), BaseLetter(y)>>

C8_Witness ==
    /\ pc = "cleaned"
    /\ applied = 1
    /\ first = <<"a", ":", "B">>
    /\ out.text = <<"a", "b">>

\* the loop is about to process a value cell under a bound label
AtValueCell ==
    /\ pc = "walk"
    /\ idx <= Len(tds)
    /\ ~tds[idx].span
    /\ previous_span.bound

\* C9: a value cell that the walk records is stored under the current label,
\* as None when its text trims to the empty string and as its trimmed text
\* otherwise; the key is then present and no stored value is the empty string.
C9_Step ==
    (AtValueCell /\ previous_span.text # <<>> /\ walked' # walked) =>
       /\ DictHas(values', previous_span.text)
       /\ DictGet(values', previous_span.text) =
             IF Strip(tds[idx].text) = <<>> THEN None ELSE Str(Strip(tds[idx].text))
       /\ DictGet(values', previous_span.text) # Str(<<>>)

C9_BlankIsNone == [][C9_Step]_vars

C9_Witness ==
    /\ InWalk
    /\ \E j \in Processed :
          /\ ~tds[j].span
          /\ Strip(tds[j].text) = <<>>
          /\ LabelBefore(j) = Bound(AlKey)
          /\ j = SetMax(ValuesUnder(AlKey))
    /\ DictHas(values, AlKey)
    /\ DictGet(values, AlKey) = None

\* C10: a value cell whose current label normalizes to the empty string is
\* dropped: the record is left as it was, the empty string is never a key, and
\* the loop goes on to the next cell, also when the sentinel has been seen.
C10_Step ==
    (AtValueCell /\ previous_span.text = <<>> /\ walked' # walked) =>
       /\ values' = values
       /\ pc' = "walk"
       /\ idx' = idx + 1

C10_EmptyLabelDropped ==
    [](InWalk => ~DictHas(values, <<>>)) /\ [][C10_Step]_vars

C10_Witness ==
    /\ InWalk
    /\ ~DictHas(values, <<>>)
    /\ \E j \in Processed :
          /\ ~tds[j].span
          /\ Strip(tds[j].text) # <<>>
          /\ LabelBefore(j) = Bound(<<>>)
          /\ (j + 1) \in Processed

\* C11 as stated: the cells the loop is given are exactly the cells of the
\* rows after the first selected row, whatever the number of cells of that
\* row, and it processes all of them in document order.
C11_HeaderRowSkipped ==
    InWalk =>
       /\ tds = SubSeq(html.tds, first_row + 1, Len(html.tds))
       /\ \A i \in 1..Len(walked) : walked[i] = i
       /\ pc = "extracted" => (Len(walked) = Len(tds) \/ next_break)

\* What line 79 does instead: the loop is given every selected cell but the
\* first one, which are the cells after the first row only when that row has
\* exactly one cell.
FirstCellSkipped ==
    InWalk =>
       /\ tds = SubSeq(html.tds, 2, Len(html.tds))
       /\ (tds = SubSeq(html.tds, first_row + 1, Len(html.tds)))
             <=> (first_row = 1 \/ Len(html.tds) = 0)
       /\ \A i \in 1..Len(walked) : walked[i] = i
       /\ pc = "walk" => Len(walked) = idx - 1
       /\ pc = "extracted" => (Len(walked) = Len(tds) \/ next_break)

\* a two-cell first row whose second cell was walked as data
SecondHeaderCellWalked ==
    /\ pc = "extracted"
    /\ first_row = 2
    /\ Len(html.tds) = 4
    /\ html.tds[2].span
    /\ walked = <<1, 2, 3>>

\* the part of a file name after its last dot (the whole name when it has none)
RECURSIVE Extension(_)
Extension(name) ==
    IF ~Contains(name, ".") THEN name ELSE Extension(DropThrough(name, "."))

\* C12: a document whose file name extension is not pdf is rejected by
\* __convert_pdf_to_image with the unsupported-format error, and the pipeline
\* never reaches the QR-decode stage for it.
C12_NonPdfRejected ==
    (pc # "idle" /\ Extension(pdf.name) # <<"p","d","f">>) =>
       /\ ~InSeq("decode", trace)
       /\ pc \in {"convert", "raised"}
       /\ pc = "raised" => err = "UnsupportedFormat"

\* C13: when the image holds at least one code, the URL handed to the fetch
\* stage is the ASCII payload of the first detected code; when it holds none,
\* decoding fails with an error and the fetch stage is never started.
C13_FirstCodeOrError ==
    /\ InSeq("fetch", trace) =>
          /\ img.codes # <<>>
          /\ img.codes[1].ascii
          /\ url = Str(img.codes[1].data)
    /\ (InSeq("decode", trace) /\ img.codes = <<>>) =>
          /\ pc = "raised"
          /\ err = "IndexError"
          /\ url = None
          /\ ~InSeq("fetch", trace)

C13_Witness ==
    /\ InSeq("fetch", trace)
    /\ Len(img.codes) = 2
    /\ img.codes[1].data # img.codes[2].data
    /\ url = Str(Url2)

\* C14: process_pdf returns the dictionary of the extracted information, the
\* same mapping it stores in self.information.
C14_ReturnsInformation ==
    pc = "returned" => (information.set /\ result = ReturnedDict(information.rec))

-----------------------------------------------------------------------------
(* MetabaseConnection: pagination and authentication *)

\* the rows of the table whose id is above min_value, in ascending id order
RowsAbove == SelectSeq(mb_source, LAMBDA id : id > min_value)

SeqRange(s) == {s[i] : i \in 1..Len(s)}

QueryMoreReturned == mb_pc = "ready" /\ mb_out.op = "query_more_data"

\* C15: over a table with unique numeric ids answered at most 2000 rows at a
\* time in ascending id order, query_more_data returns the concatenation of
\* its pages in cursor order; the result holds every row with id above
\* min_value exactly once, in id order, and no row with id at or below it.
C15_PagesConcatenated ==
    /\ mb_pc \in {"paging", "concat"} => IsPrefix(Concat(data_list), RowsAbove)
    /\ QueryMoreReturned =>
          /\ \A i \in 1..Len(data_list) : data_list[i] = QueryPage(mb_source, cursors[i])
          /\ mb_out.rows = Concat(data_list)
          /\ mb_out.rows = RowsAbove
          /\ SeqRange(mb_out.rows) = {id \in SeqRange(mb_source) : id > min_value}
          /\ Cardinality(SeqRange(mb_out.rows)) = Len(mb_out.rows)
          /\ \A i \in 1..Len(mb_out.rows) : mb_out.rows[i] > min_value

C15_Witness ==
    /\ QueryMoreReturned
    /\ Len(data_list) = 3
    /\ Len(data_list[1]) = PageSize
    /\ Len(data_list[2]) = PageSize
    /\ Len(data_list[3]) = 750
    /\ Len(mb_out.rows) = 2 * PageSize + 750

QueriesNeeded == Len(RowsAbove) \div PageSize + 1

C16_CursorsAdvance ==
    /\ Len(cursors) = Len(data_list)
    /\ mb_pc \in {"paging", "concat"} \/ QueryMoreReturned =>
          /\ cursors # <<>> => cursors[1] = min_value
          /\ \A i \in 2..Len(cursors) :
                /\ cursors[i] > cursors[i - 1]
                /\ cursors[i] = data_list[i - 1][Len(data_list[i - 1])]
          /\ \A i \in 1..(Len(data_list) - 1) : Len(data_list[i]) = PageSize
          /\ Len(cursors) <= QueriesNeeded
    /\ mb_pc = "paging" =>
          /\ ~max_value.nan
          /\ data_list # <<>> => Len(data_list[Len(data_list)]) = PageSize
    /\ mb_pc = "concat" \/ QueryMoreReturned =>
          /\ data_list # <<>>
          /\ Len(data_list[Len(data_list)]) < PageSize
          /\ Len(cursors) = QueriesNeeded

\* C16: query_more_data terminates on every finite table: every query after
\* the first uses a cursor strictly above the previous one, namely the largest
\* id of the previous page; the loop stops right after the first page of fewer
\* than 2000 rows, an empty page when the row count is a multiple of 2000; and
\* it issues exactly floor(N/2000)+1 queries for N rows above min_value.
C16_Terminates ==
    /\ []C16_CursorsAdvance
    /\ (mb_pc = "paging") ~> QueryMoreReturned

C16_Witness ==
    /\ mb_pc = "concat"
    /\ Len(data_list) = 3
    /\ Len(data_list[2]) = PageSize
    /\ data_list[3] = <<>>
    /\ max_value.nan

C19_StateInv ==
    /\ mb_logins <= 1
    /\ mb_pc = "new" => mb_logins = 0
    /\ (mb_pc # "new" /\ (mb_creds.api_key \/ ~mb_creds.new_login)) => mb_logins = 0
    /\ mb_out # NoMbOut => mb_out.auth = headers

C19_Step ==
    /\ mb_logins' # mb_logins => mb_pc = "new"
    /\ mb_pc # "new" => UNCHANGED <<SESSION_ID, headers, mb_logins>>

\* C19: a MetabaseConnection logs in at most once, only while it is being
\* constructed, and not at all when an api_key is given or new_login is False;
\* after construction no call of get_database_id, query_data, query_more_data,
\* get_tables_in_database, get_columns_in_table or get_table_id logs in or
\* changes SESSION_ID or the headers, whether the call succeeds or fails.
C19_AuthenticatesOnce == []C19_StateInv /\ [][C19_Step]_vars

C19_Witness ==
    /\ mb_logins = 1
    /\ mb_ops = MaxMbOps
    /\ mb_out.status = "raised"
    /\ SESSION_ID = "session-id"
    /\ mb_out.auth = [name |-> "X-Metabase-Session", value |-> "session-id"]

-----------------------------------------------------------------------------
(* Salesforce: batch functions and add_record *)

InBatch == sf_op \in {"change_values", "add_related_records"}

\* the positions 1..n in order
Positions(n) == [k \in 1..n |-> k]

\* the rows whose remote call was rejected, in input order
FailedRows ==
    LET failed == SelectSeq(Positions(Len(df)), LAMBDA k : sf_remote[k] # "ok")
    IN  [j \in 1..Len(failed) |-> df[failed[j]]]

\* the handler of line 221 reads a loop variable that was never bound
UnboundIndex(k) == verbose /\ columns = <<>> /\ sf_remote[k] = "not_found"

\* C17: change_values and add_related_records, for every table and every
\* pattern of per-row rejections (malformed request, resource not found):
\* each row is attempted exactly once in input order, a failed row never
\* stops the later rows from being attempted, and the returned list holds
\* exactly the rows whose call failed, in input order.
C17_BestEffortBatch ==
    InBatch =>
       /\ sf_pc # "raised"
       /\ sf_attempts = Positions(sf_i - 1)
       /\ sf_pc = "returned" =>
             /\ sf_attempts = Positions(Len(df))
             /\ sf_out.errors = FailedRows

\* what the code does: the claim's behaviour, except that add_related_records
\* stops with UnboundLocalError at the first not-found row of a table without
\* columns when verbose is set
BatchStopsOnUnboundIndex ==
    InBatch =>
       /\ sf_pc = "raised" =>
             /\ sf_op = "add_related_records"
             /\ sf_err = "UnboundLocalError"
             /\ UnboundIndex(sf_i)
             /\ sf_attempts = Positions(sf_i)
       /\ sf_pc # "raised" =>
             /\ sf_attempts = Positions(sf_i - 1)
             /\ \A k \in 1..(sf_i - 1) :
                   sf_op = "add_related_records" => ~UnboundIndex(k)
       /\ sf_pc = "returned" =>
             /\ sf_attempts = Positions(Len(df))
             /\ sf_out.errors = FailedRows

\* C18: add_record with handle_exception=True never raises when the create
\* call is rejected (malformed request or resource not found): it returns
\* success = False, id = None and a non-empty errors list; with
\* handle_exception=False the rejection propagates as an exception.
C18_RejectionHandled ==
    (sf_op = "add_record" /\ sf_remote[1] # "ok") =>
       IF handle_exception
       THEN /\ sf_pc = "returned"
            /\ sf_out.given
            /\ ~sf_out.success
            /\ sf_out.id = None
            /\ sf_out.errors # <<>>
       ELSE /\ sf_pc = "raised"
            /\ sf_err = ExceptionOf(sf_remote[1])

\* what the code does: only the malformed-request rejection is converted
OnlyMalformedHandled ==
    (sf_op = "add_record" /\ sf_remote[1] # "ok") =>
       IF handle_exception /\ sf_remote[1] = "malformed"
       THEN sf_pc = "returned" /\ sf_out = Rejected
       ELSE sf_pc = "raised" /\ sf_err = ExceptionOf(sf_remote[1])

-----------------------------------------------------------------------------
(* Ichigo: widths and master codes *)

IsCalibre(w) == ~w.int /\ w.s \in TableKeys

\* the thickness a numeric or fractional width denotes, as an exact fraction
ThicknessOf(w) == SumFractions(SplitStr(Numeral(w), " "))

\* the float code / 10_000 equals the fraction f
SameThickness(back, f) == ~back.label /\ back.code * f.den = f.num * UnitsPerOne

\* C20: for every width the forward call accepts (a calibre label of the
\* table, or a numeric or fractional thickness), the call with inverse=True on
\* the resulting master code returns the original width: the same calibre
\* label, or the same numeric thickness.
C20_RoundTrip ==
    /\ ich_pc = "rejected" => ich_back = PyFloat(0)
    /\ ich_pc = "inverted" =>
          IF IsCalibre(width) THEN ich_back = PyKey(width.s)
          ELSE SameThickness(ich_back, ThicknessOf(width))

\* what the code does: a calibre label comes back; a thickness comes back
\* when it is a whole number of 1/10 000, its product is not rounded down and
\* its code is not the code of a calibre
RoundTripUnlessTruncatedOrShared ==
    ich_pc = "inverted" =>
       IF IsCalibre(width) THEN ich_back = PyKey(width.s)
       ELSE LET f == ThicknessOf(width) IN
            /\ master_code = IntOfProduct(f)
            /\ ich_back = get_key(master_code)
            /\ SameThickness(ich_back, f) <=>
                  /\ master_code \notin TableCodes
                  /\ master_code * f.den = f.num * UnitsPerOne

ThicknessReadAsCalibre ==
    /\ ich_pc = "inverted"
    /\ width = PyStr(Decimal(90))
    /\ master_code = 90
    /\ ich_back = PyKey(Cal(32))

-----------------------------------------------------------------------------
(* Ichigo.build_dimensions: completeness and soundness *)

\* the dimension types a family requires, in the order the code emits them
RequiredTypes(fam) ==
    CASE fam = "plano" -> <<"Thickness", "Width", "Length">>
      [] fam = "perfil" -> <<"Thickness", "Length", "Wall length", "Wall width">>
      [] fam = "polin" -> <<"Thickness", "Length", "A", "B">>
      [] fam = "viga-canal" -> <<"Length", "Kg/m", "Depth">>
      [] fam = "largo-solido" -> <<"Thickness", "Length">>
      [] fam = "tuberia" ->
           <<"Thickness", "Length", "External diameter", "Nominal diameter">>
      [] OTHER -> <<>>

TypesOf(entries) == [i \in 1..Len(entries) |-> entries[i].typeCode]

\* sub is what remains of s after leaving elements out
RECURSIVE IsSubsequence(_, _)
IsSubsequence(sub, s) ==
    IF sub = <<>> THEN TRUE
    ELSE IF s = <<>> THEN FALSE
    ELSE IF Head(sub) = Head(s) THEN IsSubsequence(Tail(sub), Tail(s))
    ELSE IsSubsequence(sub, Tail(s))

AllNecessarySupplied ==
    \A name \in NecessarySet(family) : bd_args[name] \notin {AbsentV, NaNV}

OnlyNecessarySupplied ==
    \A name \in ArgNameSet \ NecessarySet(family) : bd_args[name] = AbsentV

\* C21: for every family and every input in which all values necessary for
\* the family are supplied (not None/NaN), build_dimensions does not raise and
\* returns one entry for each dimension type the family requires, in the
\* fixed order of the code; for 'plano' with only its five values supplied the
\* result is exactly Thickness, Width, Length.
C21_Complete ==
    (bd_pc # "idle" /\ AllNecessarySupplied) =>
       /\ bd_pc = "returned"
       /\ IsSubsequence(RequiredTypes(family), TypesOf(dimensions))
       /\ (family = "plano" /\ OnlyNecessarySupplied) =>
             TypesOf(dimensions) = <<"Thickness", "Width", "Length">>

\* what the code does: complete when, besides, every necessary value is
\* truthy and the thickness is one map_width_to_master_code accepts
CompleteWhenTruthy ==
    (/\ bd_pc # "idle"
     /\ AllNecessarySupplied
     /\ \A name \in NecessarySet(family) : Truthy(bd_args[name])
     /\ MapWidth(AsWidth(bd_args["thickness"]), FALSE).raised = "none"
     /\ bd_args["cedula"] = AbsentV) =>
       /\ bd_pc = "returned"
       /\ IsSubsequence(RequiredTypes(family), TypesOf(dimensions))
       /\ (family = "plano" /\ OnlyNecessarySupplied) =>
             TypesOf(dimensions) = <<"Thickness", "Width", "Length">>

\* the argument an entry type is built from
ArgOfType(typeCode) ==
    CASE typeCode = "Thickness" -> "thickness"
      [] typeCode = "Width" -> "width_value"
      [] typeCode = "Length" -> "length_value"
      [] typeCode = "Wall length" -> "wall_length"
      [] typeCode = "Wall width" -> "wall_width"
      [] typeCode = "A" -> "A"
      [] typeCode = "B" -> "B"
      [] typeCode = "Kg/m" -> "kg_m"
      [] typeCode = "Depth" -> "depth"
      [] typeCode = "External diameter" -> "diameter"
      [] typeCode = "Nominal diameter" -> "diameter"
      [] OTHER -> "none"

\* C27: the returned list holds an entry of a type only when that dimension
\* is one of the family's necessary parameters or is the optional cedula, C
\* or D; an argument the family does not need never produces an entry,
\* whatever its value, also when it equals the value of a necessary argument.
C27_Sound ==
    bd_pc = "returned" =>
       \A i \in 1..Len(dimensions) :
          \/ dimensions[i].typeCode \in {"C", "D"}
          \/ ArgOfType(dimensions[i].typeCode) \in NecessarySet(family)
          \/ /\ dimensions[i].typeCode = "Depth"
             /\ bd_args["cedula"] # AbsentV
             /\ i = Len(dimensions)

\* what the code does: an unnecessary argument produces an entry exactly when
\* its value equals the value of a necessary one (for Depth: when kg_m does)
SoundUnlessValueShared ==
    bd_pc = "returned" =>
       \A i \in 1..Len(dimensions) :
          \/ dimensions[i].typeCode \in {"C", "D"}
          \/ ArgOfType(dimensions[i].typeCode) \in NecessarySet(family)
          \/ /\ dimensions[i].typeCode = "Depth"
             /\ bd_args["cedula"] # AbsentV
             /\ i = Len(dimensions)
          \/ InList(bd_args[IF dimensions[i].typeCode = "Depth" THEN "kg_m"
                            ELSE ArgOfType(dimensions[i].typeCode)],
                    necessary_values(family, bd_args))

-----------------------------------------------------------------------------
(* __extract_information: the label a value cell is recorded under *)

NoLabelYet == \A j \in 1..(idx - 1) : ~tds[j].span

NearestLabel == CleanString(tds[SetMax({j \in 1..(idx - 1) : tds[j].span})].text)

WalksValueCell ==
    /\ pc = "walk"
    /\ idx <= Len(tds)
    /\ ~tds[idx].span
    /\ walked' # walked

\* C28: a value cell the walk records is stored under the normalized label of
\* the nearest preceding label cell and under no other key; a value cell
\* walked before any label cell has been seen makes the extraction fail with
\* UnboundLocalError, stores nothing and no record is ever returned.
C28_Step ==
    /\ (WalksValueCell /\ ~NoLabelYet /\ NearestLabel # <<>>) =>
          /\ values' = DictSet(values, NearestLabel, CellValue(tds[idx]))
          /\ pc' # "raised"
    /\ (WalksValueCell /\ NoLabelYet) =>
          /\ pc' = "raised"
          /\ err' = "UnboundLocalError"
          /\ values' = values
    /\ (pc = "raised") => (pc' = "raised")

C28_NearestLabelOrError == [][C28_Step]_vars

C28_Witness ==
    /\ pc = "raised"
    /\ err = "UnboundLocalError"
    /\ walked = <<1>>
    /\ Len(tds) >= 2
    /\ ~tds[1].span
    /\ \E j \in 2..Len(tds) : tds[j].span
    /\ DictKeys(values) = {RfcKey}

\* a recorded value cell under its nearest label, two labels before it
ReachesRecordedUnderNearest ==
    /\ InWalk
    /\ \E j \in Processed :
          /\ ~tds[j].span
          /\ Cardinality({i \in 1..(j - 1) : tds[i].span}) >= 2
          /\ LabelBefore(j).text # <<>>
          /\ DictHas(values, LabelBefore(j).text)

-----------------------------------------------------------------------------
(* Ichigo.__init__: the environments accepted *)

\* C22: the constructor accepts connect_to 'production' and 'uat' and builds
\* the endpoint of that environment; any other value raises ValueError and no
\* request has been made.
C22_AcceptsProductionAndUat ==
    (ctor_pc # "idle") =>
       IF connect_to \in DocumentedOptions
       THEN /\ ctor_pc = "built"
            /\ endpoint = <<"https://api.", connect_to, ".prima.ai/graphql/">>
       ELSE /\ ctor_pc = "raised"
            /\ posts = <<>>

\* what the code does: 'ichigo' and 'uat' are accepted, everything else raises
\* before the endpoint is set, and every request goes to the endpoint built
AcceptsIchigoAndUat ==
    /\ (ctor_pc # "idle") =>
          IF connect_to \in {"ichigo", "uat"}
          THEN /\ ctor_pc = "built"
               /\ endpoint = <<"https://api.", connect_to, ".prima.ai/graphql/">>
          ELSE /\ ctor_pc = "raised"
               /\ endpoint = <<>>
               /\ posts = <<>>
    /\ \A i \in 1..Len(posts) : posts[i].url = endpoint

-----------------------------------------------------------------------------
(* get_record_type_id: found or None *)

Matching ==
    {i \in 1..Len(record_types) :
        /\ record_types[i].SobjectType = rt_query.sobject
        /\ record_types[i].Name = rt_query.record_type_name}

\* C23: get_record_type_id returns the Id of the record type when the query
\* finds one, and returns None without raising when the query returns no
\* records.
C23_IdOrNone ==
    (rt_pc # "idle") =>
       /\ rt_pc = "returned"
       /\ rt_id = IF Matching = {} THEN None
                  ELSE Str(record_types[CHOOSE i \in Matching :
                                           \A j \in Matching : i <= j].Id)

\* what the code does: the Id when a record is found, KeyError when none is
IdOrKeyError ==
    (rt_pc # "idle") =>
       IF Matching = {}
       THEN rt_pc = "raised" /\ rt_err = "KeyError"
       ELSE /\ rt_pc = "returned"
            /\ rt_id = Str(record_types[CHOOSE i \in Matching :
                                           \A j \in Matching : i <= j].Id)

-----------------------------------------------------------------------------
(* modify_record: the cells changed *)

\* record i of the worksheet as it was had the value of every pair of id
MatchesId(i) ==
    \A p \in 1..Len(sh_id) :
       sheet_before[i + 1][ColumnIndex(Header, sh_id[p].k)] = sh_id[p].v

\* C24: modify_record changes exactly the records that match every
\* column/value pair of id: in each matching row the columns named in values
\* take the new values, every other cell of the sheet (the header, the rows
\* that do not match, the columns not named in values) is as it was, and when
\* no row matches, or the call raises, the sheet is as it was.
C24_ExactlyMatchingRecords ==
    /\ (sh_pc = "raised") => (worksheet = sheet_before)
    /\ (sh_pc = "returned") =>
          /\ Len(worksheet) = Len(sheet_before)
          /\ worksheet[1] = sheet_before[1]
          /\ \A i \in 1..(Len(worksheet) - 1), c \in 1..Len(Header) :
                worksheet[i + 1][c] =
                   IF MatchesId(i) /\ DictHas(sh_values, Header[c])
                   THEN DictGet(sh_values, Header[c])
                   ELSE sheet_before[i + 1][c]
          /\ (\A i \in 1..(Len(worksheet) - 1) : ~MatchesId(i)) =>
                (worksheet = sheet_before)

C24_Witness ==
    /\ sh_pc = "returned"
    /\ Len(sh_id) = 2
    /\ sh_values # <<>>
    /\ worksheet # sheet_before
    /\ \E i, j \in 1..(Len(worksheet) - 1) :
          /\ MatchesId(i)
          /\ worksheet[i + 1] # sheet_before[i + 1]
          /\ ~MatchesId(j)
          /\ sheet_before[j + 1][ColumnIndex(Header, sh_id[1].k)] = sh_id[1].v
          /\ worksheet[j + 1] = sheet_before[j + 1]

-----------------------------------------------------------------------------
(* __execute_query_in_mb: the fallback on the row limit *)

\* C25: when the plain query_data call hits the 2000-row limit (it returns
\* exactly 2000 rows and issues its warning), the method falls back to
\* query_more_data with the given id_col and returns all rows of the query,
\* not the truncated 2000.
C25_FallsBackOnLimit ==
    (mp_pc = "returned" /\ mp_warned /\ id_col) => (mb_data = mb_source)

\* what the code does: the fallback runs only when the filter turns the
\* warning into an exception; otherwise the first 2000 rows are returned
FallsBackOnlyWhenWarningRaises ==
    (mp_pc = "returned" /\ mp_warned) =>
       IF warn_filter = "error"
       THEN mb_data = mb_source
       ELSE mb_data = SubSeq(mb_source, 1, RowLimit)

-----------------------------------------------------------------------------
(* change_multiple_values and add_multiple_records: one call per row *)

MultipleReturned ==
    /\ sf_pc = "returned"
    /\ sf_op \in {"change_multiple_values", "add_multiple_records"}

FailedCalls == {k \in 1..Len(mr_calls) : sf_remote[k] # "ok"}

\* C26: change_multiple_values and add_multiple_records issue exactly one
\* remote call per row of the input dataframe, in row order, also when several
\* rows share the same index value, and the returned error list has one entry
\* per failed call.
C26_OneCallPerRow ==
    MultipleReturned =>
       /\ Len(mr_calls) = Len(df)
       /\ \A i \in 1..Len(df) : mr_calls[i] = [k |-> df[i][1], v |-> df[i][2]]
       /\ Len(sf_out.errors) = Cardinality(FailedCalls)

\* what the code does: one call per distinct index value, in the order of
\* first appearance, with the values of the last row of that index
OneCallPerIndexValue ==
    MultipleReturned =>
       /\ mr_calls = ToDict(df, 1, <<>>)
       /\ Len(mr_calls) = Cardinality({df[i][1] : i \in 1..Len(df)})
       /\ Len(sf_out.errors) = Cardinality(FailedCalls)

====
